---------------------------- MODULE Spec2Model ----------------------------
(***************************************************************************)
(* A model of the options / settings part of mods_base:                    *)
(*   src/options.py   the option kinds and their JSON codec                *)
(*   src/settings.py  default_load_mod_settings / default_save_mod_settings*)
(*                                                                         *)
(* Python values are tagged records.  A Python str is a sequence of        *)
(* one-character strings, so that str(), strip(), lower(), substring       *)
(* tests and float() parsing are computed rather than looked up.  Numbers  *)
(* are fixed point: an int n is <<"int", n>>, a float is                  *)
(* <<"float", tenths>>; the model's floats are the finite ones             *)
(* with one fractional digit.  A dict is a sequence of <<key, value>>      *)
(* pairs in insertion order (Python dicts keep insertion order).           *)
(***************************************************************************)
EXTENDS Integers, Sequences, FiniteSets, TLC

VARIABLES
    options,        \* Mod.options: the option tree, each node with its value
    keybinds,       \* Mod.keybinds: sequence of keybind objects
    auto_enable,    \* Mod.auto_enable
    is_enabled,     \* Mod.is_enabled
    settings_file,  \* Mod.settings_file: "None" or "path"
    disk,           \* what the file system holds at settings_file
    assigns,        \* number of menu / script assignments made so far
    call,           \* the last call made on the mod: operation, outcome, events
    console_commands, \* the console's command registry: command and callback
    mod_list        \* mod_list.mod_list: the registered mods

vars == <<options, keybinds, auto_enable, is_enabled, settings_file, disk, assigns, call,
          console_commands, mod_list>>

-----------------------------------------------------------------------------
(* Python str: sequences of characters *)

S_None      == <<"N","o","n","e">>
S_True      == <<"T","r","u","e">>
S_False     == <<"F","a","l","s","e">>
S_false     == <<"f","a","l","s","e">>
S_options   == <<"o","p","t","i","o","n","s">>
S_keybinds  == <<"k","e","y","b","i","n","d","s">>
S_enabled   == <<"e","n","a","b","l","e","d">>

Upper == <<"A","B","C","D","E","F","G","H","I","J","K","L","M",
           "N","O","P","Q","R","S","T","U","V","W","X","Y","Z">>
Lower == <<"a","b","c","d","e","f","g","h","i","j","k","l","m",
           "n","o","p","q","r","s","t","u","v","w","x","y","z">>
Digit == <<"0","1","2","3","4","5","6","7","8","9">>

IsSpace(c) == c \in {" ", "\t", "\n", "\r"}

IsDigit(c) == \E i \in 1..10 : Digit[i] = c

DigitVal(c) == (CHOOSE i \in 1..10 : Digit[i] = c) - 1

LowerChar(c) ==
    IF \E i \in 1..26 : Upper[i] = c
    THEN Lower[CHOOSE i \in 1..26 : Upper[i] = c]
    ELSE c

\* str.lower()
PyLower(s) == [i \in 1..Len(s) |-> LowerChar(s[i])]

\* str.strip(): drops leading and trailing whitespace
PyStrip(s) ==
    LET keep == {i \in 1..Len(s) : ~IsSpace(s[i])}
    IN  IF keep = {} THEN <<>>
        ELSE LET lo == CHOOSE i \in keep : \A j \in keep : i <= j
                 hi == CHOOSE i \in keep : \A j \in keep : i >= j
             IN  SubSeq(s, lo, hi)

\* `needle in hay` for two strs: substring test
IsSubstring(needle, hay) ==
    \E i \in 0..(Len(hay) - Len(needle)) :
        SubSeq(hay, i + 1, i + Len(needle)) = needle

RECURSIVE NatStr(_)
NatStr(n) == IF n < 10 THEN <<Digit[n + 1]>>
             ELSE NatStr(n \div 10) \o <<Digit[(n % 10) + 1]>>

\* str(int)
IntStr(n) == IF n < 0 THEN <<"-">> \o NatStr(0 - n) ELSE NatStr(n)

\* str(float), for a float given in tenths: always one fractional digit
FloatStr(t) ==
    LET a == IF t < 0 THEN 0 - t ELSE t
    IN  (IF t < 0 THEN <<"-">> ELSE <<>>)
            \o NatStr(a \div 10) \o <<".">> \o <<Digit[(a % 10) + 1]>>

RECURSIVE DigitsVal(_)
DigitsVal(s) == IF s = <<>> THEN 0
                ELSE 10 * DigitsVal(SubSeq(s, 1, Len(s) - 1)) + DigitVal(s[Len(s)])

AllDigits(s) == \A i \in 1..Len(s) : IsDigit(s[i])

-----------------------------------------------------------------------------
(* Python / JSON values *)

\* A value is a tuple <<type, payload>>: x[1] is its type, x[2] its payload
JNull       == <<"null">>
JBool(b)    == <<"bool", b>>
JInt(n)     == <<"int", n>>
JFloat(d)   == <<"float", d>>
\* the floats that are no finite number: inf (sign 1), -inf (sign -1), nan
JInf(sign)  == <<"inf", sign>>
JNaN        == <<"nan">>
JStr(s)     == <<"str", s>>
JList(xs)   == <<"list", xs>>
JMap(kvs)   == <<"map", kvs>>
\* the Ellipsis object `...`, which _to_json returns for "no value"
Ellipsis    == <<"ellipsis">>

\* the result of evaluating an expression: an exception name or "none"
Ok(val)     == [exc |-> "none", val |-> val]
Raise(e)    == [exc |-> e, val |-> JNull]

DictKeys(m)      == {m[2][i][1] : i \in 1..Len(m[2])}
DictHas(m, k)    == \E i \in 1..Len(m[2]) : m[2][i][1] = k
DictGet(m, k)    == m[2][CHOOSE i \in 1..Len(m[2]) : m[2][i][1] = k][2]
\* d[k] = x: an existing key keeps its place, a new key is appended
DictSet(m, k, x) ==
    IF DictHas(m, k)
    THEN JMap([i \in 1..Len(m[2]) |-> IF m[2][i][1] = k THEN <<k, x>> ELSE m[2][i]])
    ELSE JMap(Append(m[2], <<k, x>>))

\* float(s) of digits, "e" and digits: a finite float can hold no number
\* of 10^309 or more (the model's strs carry the exponents 0 and 1, and
\* exponents too large for a float)
ParseExponent(body, neg) ==
    LET es == {i \in 1..Len(body) : body[i] \in {"e", "E"}}
        e  == CHOOSE i \in es : TRUE
        m  == SubSeq(body, 1, e - 1)
        x  == SubSeq(body, e + 1, Len(body))
    IN  IF Cardinality(es) = 1 /\ m # <<>> /\ x # <<>> /\ AllDigits(m) /\ AllDigits(x)
        THEN IF DigitsVal(m) = 0 THEN Ok(JFloat(0))
             ELSE IF Len(x) > 3 \/ DigitsVal(x) + Len(m) > 309
                  THEN Ok(JInf(IF neg THEN -1 ELSE 1))
             ELSE IF DigitsVal(x) = 0
                  THEN Ok(JFloat((IF neg THEN -10 ELSE 10) * DigitsVal(m)))
             ELSE IF DigitsVal(x) = 1
                  THEN Ok(JFloat((IF neg THEN -100 ELSE 100) * DigitsVal(m)))
             ELSE Raise("ValueError")
        ELSE Raise("ValueError")

\* float(s) for a str: optional surrounding whitespace, optional sign, then
\* inf, infinity or nan in any case, or digits with at most one "." and
\* possibly an exponent (the model's strs carry no underscore and at most
\* one fractional digit)
ParseFloat(s0) ==
    LET s    == PyStrip(s0)
        neg  == Len(s) > 0 /\ s[1] = "-"
        sgn  == Len(s) > 0 /\ s[1] \in {"-", "+"}
        body == IF sgn THEN SubSeq(s, 2, Len(s)) ELSE s
        dots == {i \in 1..Len(body) : body[i] = "."}
        mk(n) == Ok(JFloat(IF neg THEN 0 - n ELSE n))
    IN  IF PyLower(body) \in {<<"i","n","f">>, <<"i","n","f","i","n","i","t","y">>}
        THEN Ok(JInf(IF neg THEN -1 ELSE 1))
        ELSE IF PyLower(body) = <<"n","a","n">> THEN Ok(JNaN)
        ELSE IF dots = {}
        THEN IF body # <<>> /\ AllDigits(body)
             THEN mk(10 * DigitsVal(body))
             ELSE ParseExponent(body, neg)
        ELSE LET d  == CHOOSE i \in dots : TRUE
                 ip == SubSeq(body, 1, d - 1)
                 fp == SubSeq(body, d + 1, Len(body))
             IN  IF Cardinality(dots) = 1 /\ AllDigits(ip) /\ AllDigits(fp)
                    /\ (ip # <<>> \/ fp # <<>>) /\ Len(fp) <= 1
                 THEN mk(10 * DigitsVal(ip) + DigitsVal(fp))
                 ELSE Raise("ValueError")

\* float(x)
PyFloat(x) ==
    CASE x[1] = "bool"  -> Ok(JFloat(IF x[2] THEN 10 ELSE 0))
      [] x[1] = "int"   -> Ok(JFloat(10 * x[2]))
      [] x[1] \in {"float", "inf", "nan"} -> Ok(x)
      [] x[1] = "str"   -> ParseFloat(x[2])
      [] OTHER         -> Raise("TypeError")

\* round(x) for a finite float: the nearest int, a tie goes to the even one
RoundHalfEven(t) ==
    LET q == t \div 10
        r == t % 10
    IN  IF r < 5 THEN q
        ELSE IF r > 5 THEN q + 1
        ELSE IF q % 2 = 0 THEN q ELSE q + 1

\* round(x) for a float: "cannot convert float infinity to integer" is an
\* OverflowError, "cannot convert float NaN to integer" a ValueError
PyRound(x) ==
    CASE x[1] = "inf" -> Raise("OverflowError")
      [] x[1] = "nan" -> Raise("ValueError")
      [] OTHER       -> Ok(JInt(RoundHalfEven(x[2])))

RECURSIVE PyRepr(_)
RECURSIVE JoinRepr(_, _)
RECURSIVE JoinItems(_, _)

\* ", ".join(repr(e) for e in xs[i:])
JoinRepr(xs, i) ==
    IF i > Len(xs) THEN <<>>
    ELSE PyRepr(xs[i]) \o (IF i < Len(xs) THEN <<",", " ">> ELSE <<>>)
            \o JoinRepr(xs, i + 1)

\* ", ".join(f"{k!r}: {v!r}" for k, v in kvs[i:])
JoinItems(kvs, i) ==
    IF i > Len(kvs) THEN <<>>
    ELSE <<"'">> \o kvs[i][1] \o <<"'", ":", " ">> \o PyRepr(kvs[i][2])
            \o (IF i < Len(kvs) THEN <<",", " ">> ELSE <<>>)
            \o JoinItems(kvs, i + 1)

\* repr(x) (the model's strs hold no quote and no escape)
PyRepr(x) ==
    CASE x[1] = "null"  -> S_None
      [] x[1] = "bool"  -> IF x[2] THEN S_True ELSE S_False
      [] x[1] = "int"   -> IntStr(x[2])
      [] x[1] = "float" -> FloatStr(x[2])
      [] x[1] = "inf"   -> IF x[2] < 0 THEN <<"-","i","n","f">> ELSE <<"i","n","f">>
      [] x[1] = "nan"   -> <<"n","a","n">>
      [] x[1] = "str"   -> <<"'">> \o x[2] \o <<"'">>
      [] x[1] = "list"  -> <<"[">> \o JoinRepr(x[2], 1) \o <<"]">>
      [] x[1] = "map"   -> <<"{">> \o JoinItems(x[2], 1) \o <<"}">>

\* str(x)
PyStr(x) == IF x[1] = "str" THEN x[2] ELSE PyRepr(x)

\* bool(x): truthiness
PyBool(x) ==
    CASE x[1] = "null"  -> FALSE
      [] x[1] = "bool"  -> x[2]
      [] x[1] = "int"   -> x[2] # 0
      [] x[1] = "float" -> x[2] # 0
      [] x[1] \in {"inf", "nan"} -> TRUE
      [] x[1] = "str"   -> x[2] # <<>>
      [] x[1] = "list"  -> x[2] # <<>>
      [] x[1] = "map"   -> x[2] # <<>>

\* `k in c` for a str k: key of a dict, element of a list, substring of a
\* str; any other container type raises TypeError
PyContains(c, k) ==
    CASE c[1] = "map"  -> Ok(DictHas(c, k))
      [] c[1] = "list" -> Ok(\E i \in 1..Len(c[2]) : c[2][i] = JStr(k))
      [] c[1] = "str"  -> Ok(IsSubstring(k, c[2]))
      [] OTHER        -> Raise("TypeError")

\* c[k] for a str k: a dict's value; a list or a str takes only integer
\* indices, and nothing else is subscriptable
PyGetItem(c, k) ==
    CASE c[1] = "map" -> IF DictHas(c, k) THEN Ok(DictGet(c, k)) ELSE Raise("KeyError")
      [] OTHER       -> Raise("TypeError")

\* c.get(k, default): only a dict has it
PyGet(c, k, default) ==
    CASE c[1] = "map" -> Ok(IF DictHas(c, k) THEN DictGet(c, k) ELSE default)
      [] OTHER       -> Raise("AttributeError")

-----------------------------------------------------------------------------
(* src/options.py: the option kinds *)

\* One entry of the record of a call: a value assignment ("set"), a
\* callback invocation ("on_change"), a logging.error ("error"), a keybind
\* key assignment ("key"), Mod.enable
\* ("enable"), Path.unlink ("unlink") or a file write ("write")
Ev(ev, id, val) == [ev |-> ev, id |-> id, val |-> val]

\* the outcome of a method call on an option: the option afterwards, the
\* exception that left the call ("none" when it returned), what it did
R(opt, exc, log) == [opt |-> opt, exc |-> exc, log |-> log]

\* dataclass fields; a field a kind does not have holds a placeholder
\* the display metadata of an option or a keybind; BaseOption.__post_init__
\* fills a missing display_name with the identifier and a missing
\* description_title with the display name
Display(display_name, description, description_title, is_hidden) ==
    <<display_name, description, description_title, is_hidden>>

\* dataclass fields; a field a kind does not have holds a placeholder.
\* on_change names the callback ("None" when there is none), guard is
\* hasattr(self, "_on_change_recursion_guard"), and shared tells that
\* value and default_value are one and the same mutable object
BaseOption(kind, identifier) ==
    [kind |-> kind, identifier |-> identifier,
     display |-> Display(identifier, <<>>, identifier, FALSE),
     value |-> Ellipsis, default_value |-> Ellipsis,
     on_change |-> "None", guard |-> FALSE, shared |-> FALSE,
     is_integer |-> FALSE, choices |-> <<>>, is_rebindable |-> FALSE,
     children |-> <<>>]

\* a list or a dict: an object that can be modified in place
IsMutable(v) == v[1] \in {"list", "map"}

\* ValueOption.__post_init__: self.default_value = self.value binds the
\* default to the very object the value is
ValueOption(kind, identifier, value) ==
    [BaseOption(kind, identifier) EXCEPT !.value = value, !.default_value = value,
                                         !.shared = IsMutable(value)]

\* ValueOption.__call__(on_change), the decorator syntax
WithCallback(o, on_change) == [o EXCEPT !.on_change = on_change]

HiddenOption(identifier, value) == ValueOption("hidden", identifier, value)

SliderOption(identifier, value, is_integer) ==
    [ValueOption("slider", identifier, value) EXCEPT !.is_integer = is_integer]

SpinnerOption(identifier, value, choices) ==
    [ValueOption("spinner", identifier, value) EXCEPT !.choices = choices]

BoolOption(identifier, value) == ValueOption("bool", identifier, value)

DropdownOption(identifier, value, choices) ==
    [ValueOption("dropdown", identifier, value) EXCEPT !.choices = choices]

ButtonOption(identifier) == BaseOption("button", identifier)

KeybindOption(identifier, value, is_rebindable) ==
    [ValueOption("keybind", identifier, value) EXCEPT !.is_rebindable = is_rebindable]

\* a variant that leaves the callback out
KeybindOption_from_keybind_NoCallback(bind) ==
    [KeybindOption(bind.identifier, bind.key, bind.is_rebindable)
        EXCEPT !.display = bind.display, !.default_value = bind.default_key]

\* KeybindOption.from_keybind(bind): the option is constructed from the
\* keybind's fields with a callback that assigns bind.key, and then
\* option.default_value = bind.default_key
KeybindOption_from_keybind(bind) ==
    [KeybindOption(bind.identifier, bind.key, bind.is_rebindable)
        EXCEPT !.display = bind.display, !.on_change = "bind",
               !.default_value = bind.default_key]

GroupedOption(identifier, children) ==
    [BaseOption("group", identifier) EXCEPT !.children = children]

NestedOption(identifier, children) ==
    [BaseOption("nested", identifier) EXCEPT !.children = children]

IsValueOption(o) == o.kind \in {"hidden", "slider", "spinner", "bool", "dropdown", "keybind"}
IsComposite(o)   == o.kind \in {"group", "nested"}

\* super().__setattr__("value", v): the option now holds another object
Assigned(o, v) ==
    R([o EXCEPT !.value = v, !.shared = FALSE], "none", <<Ev("set", o.identifier, v)>>)

\* what a callback is called with: the new value, and the value it reads
\* from the option while it runs
Notified(o, v) == Ev("on_change", o.identifier, <<"list", <<v, o.value>>>>)

RECURSIVE SetValue(_, _)

\* self.on_change(self, value), for the callbacks of the model:
\*   "observe"  reads option.value and returns
\*   "revert"   assigns option.value = option.default_value
\*   "validate" raises when the new value is an empty list or dict
\*   "bind"     setattr(bind, "key", new_key), of KeybindOption.from_keybind
CallbackAfterInner(o, v, inner) == R(inner.opt, inner.exc, <<Notified(o, v)>> \o inner.log)

on_change_call(o, v) ==
    CASE o.on_change = "observe" -> R(o, "none", <<Notified(o, v)>>)
      [] o.on_change = "revert"  -> CallbackAfterInner(o, v, SetValue(o, o.default_value))
      [] o.on_change = "validate" ->
            R(o, IF IsMutable(v) /\ v[2] = <<>> THEN "RuntimeError" ELSE "none",
              <<Notified(o, v)>>)
      [] o.on_change = "bind"    -> R(o, "none", <<Notified(o, v), Ev("key", o.identifier, v)>>)

\* del self._on_change_recursion_guard, then super().__setattr__; a
\* callback that raised leaves __setattr__ before either
SetValueAfterCallback(v, r) ==
    IF r.exc # "none" THEN r
    ELSE R(Assigned([r.opt EXCEPT !.guard = FALSE], v).opt, "none",
           r.log \o Assigned(r.opt, v).log)

\* ValueOption.__setattr__("value", v)
SetValue(o, v) ==
    IF o.on_change # "None" /\ ~o.guard
    THEN SetValueAfterCallback(v, on_change_call([o EXCEPT !.guard = TRUE], v))
    ELSE Assigned(o, v)

\* logging.error(f"'{value}' is not a valid value for option ...")
LogError(o, value) == R(o, "none", <<Ev("error", o.identifier, value)>>)

\* a float or an int, in tenths when it is finite
AsTenths(x) == IF x[1] = "int" THEN 10 * x[2] ELSE x[2]

\* a - b for two numbers
PySub(a, b) ==
    IF a[1] = "nan" \/ b[1] = "nan" THEN JNaN
    ELSE IF a[1] = "inf" THEN (IF b = a THEN JNaN ELSE a)
    ELSE IF b[1] = "inf" THEN JInf(0 - b[2])
    ELSE JFloat(AsTenths(a) - AsTenths(b))

\* a > b for two numbers
PyGreater(a, b) ==
    IF a[1] = "nan" \/ b[1] = "nan" THEN FALSE
    ELSE IF a[1] = "inf" THEN a[2] > 0 /\ b # a
    ELSE IF b[1] = "inf" THEN b[2] < 0
    ELSE AsTenths(a) > AsTenths(b)

RECURSIVE AnyNotInt(_, _)
\* any(x != int(x) for x in xs[i:]): stops at the first that differs;
\* int(inf) is an OverflowError, int(nan) a ValueError
AnyNotInt(xs, i) ==
    IF i > Len(xs) THEN Ok(FALSE)
    ELSE IF xs[i][1] = "inf" THEN Raise("OverflowError")
    ELSE IF xs[i][1] = "nan" THEN Raise("ValueError")
    ELSE IF AsTenths(xs[i]) % 10 # 0 THEN Ok(TRUE)
    ELSE AnyNotInt(xs, i + 1)

\* if self.step > (self.max_value - self.min_value)
StepTooLarge(min_value, max_value, step) ==
    PyGreater(step, PySub(max_value, min_value))

\* the rest of __post_init__: warnings.warn(...) if any field is not an int
SliderWarning(o, any) ==
    IF any.exc # "none" THEN R(o, any.exc, <<>>)
    ELSE IF any.val THEN R(o, "none", <<Ev("warn", o.identifier, o.value)>>)
    ELSE R(o, "none", <<>>)

\* SliderOption(identifier, value, min_value, max_value, step, is_integer):
\* the object under construction, the exception that ended __post_init__
SliderOption_post_init(o, min_value, max_value, step) ==
    IF StepTooLarge(min_value, max_value, step) THEN R(o, "ValueError", <<>>)
    ELSE IF ~o.is_integer THEN R(o, "none", <<>>)
    ELSE SliderWarning(o, AnyNotInt(<<o.value, min_value, max_value, step>>, 1))

HiddenOption_from_json(o, value) == SetValue(o, value)

\* self.value = round(...), given the outcome of round(self.value)
SliderAfterRound(r1, rd) ==
    IF rd.exc # "none" THEN R(r1.opt, rd.exc, r1.log)
    ELSE R(SetValue(r1.opt, rd.val).opt, SetValue(r1.opt, rd.val).exc,
           r1.log \o SetValue(r1.opt, rd.val).log)

\* if self.is_integer: self.value = round(self.value), given the
\* outcome of self.value = float(value)
SliderRound(r1) ==
    IF r1.exc # "none" THEN r1 ELSE SliderAfterRound(r1, PyRound(r1.opt.value))

\* self.value = float(value); if self.is_integer: self.value = round(self.value)
SliderAssign(o, f) ==
    IF o.is_integer THEN SliderRound(SetValue(o, f)) ELSE SetValue(o, f)

\* except ValueError: logging.error(...) -- any other exception leaves the call
SliderCaught(o, value, r) ==
    IF r.exc = "ValueError" THEN R(r.opt, "none", r.log \o LogError(o, value).log)
    ELSE r

\* what follows float(value)
SliderAfterFloat(o, value, f) ==
    IF f.exc # "none" THEN SliderCaught(o, value, R(o, f.exc, <<>>))
    ELSE SliderCaught(o, value, SliderAssign(o, f.val))

SliderOption_from_json(o, value) == SliderAfterFloat(o, value, PyFloat(value))

\* a variant that compares without regard to case
InChoices_IgnoreCase(s, choices) ==
    \E i \in 1..Len(choices) : PyLower(choices[i]) = PyLower(s)

InChoices(s, choices) == \E i \in 1..Len(choices) : choices[i] = s

\* if value in self.choices: self.value = value; else: logging.error(...)
ChoiceAssign(o, s) ==
    IF InChoices(s, o.choices) THEN SetValue(o, JStr(s))
    ELSE LogError(o, JStr(s))

SpinnerOption_from_json(o, value) == ChoiceAssign(o, PyStr(value))

\* isinstance(value, str) and value.strip().lower() == "false"
\* a variant that does not strip the whitespace
IsFalseString_NoStrip(value) == value[1] = "str" /\ PyLower(value[2]) = S_false

IsFalseString(value) == value[1] = "str" /\ PyLower(PyStrip(value[2])) = S_false

BoolOption_from_json(o, value) ==
    IF IsFalseString(value) THEN SetValue(o, JBool(PyBool(JBool(FALSE))))
    ELSE SetValue(o, JBool(PyBool(value)))

DropdownOption_from_json(o, value) == ChoiceAssign(o, PyStr(value))

ButtonOption_from_json(o, value) == R(o, "none", <<>>)

\* a variant without the None check: str(None) is stored
KeybindOption_from_json_NoNone(o, value) == SetValue(o, JStr(PyStr(value)))

KeybindOption_from_json(o, value) ==
    IF value = JNull THEN SetValue(o, JNull)
    ELSE SetValue(o, JStr(PyStr(value)))

RECURSIVE Option_from_json(_, _)
RECURSIVE ForEachOption(_, _, _)

\* the outcome of a loop over options: the options afterwards, the
\* exception that ended it, what it did
Loop(opts, exc, log) == [opts |-> opts, exc |-> exc, log |-> log]

\* the loop went on after options[i] was loaded
LoopCons(log, rest) == [rest EXCEPT !.log = log \o @]

\* option._from_json(...) has run on options[i]: an exception ends the
\* loop, with the options before it already loaded
LoopAfterFromJson(opts, settings, i, r) ==
    IF r.exc # "none" THEN Loop([opts EXCEPT ![i] = r.opt], r.exc, r.log)
    ELSE LoopCons(r.log, ForEachOption([opts EXCEPT ![i] = r.opt], settings, i + 1))

\* value = settings[option.identifier]; option._from_json(value)
LoopAfterGetItem(opts, settings, i, item) ==
    IF item.exc # "none" THEN Loop(opts, item.exc, <<>>)
    ELSE LoopAfterFromJson(opts, settings, i, Option_from_json(opts[i], item.val))

\* a variant that resets an option missing from the document to its default
LoopAfterContains_Reset(opts, settings, i, has) ==
    IF has.exc # "none" THEN Loop(opts, has.exc, <<>>)
    ELSE IF ~has.val
         THEN ForEachOption([opts EXCEPT ![i].value = opts[i].default_value], settings, i + 1)
    ELSE LoopAfterGetItem(opts, settings, i, PyGetItem(settings, opts[i].identifier))

\* if option.identifier not in settings: continue
LoopAfterContains(opts, settings, i, has) ==
    IF has.exc # "none" THEN Loop(opts, has.exc, <<>>)
    ELSE IF ~has.val THEN ForEachOption(opts, settings, i + 1)
    ELSE LoopAfterGetItem(opts, settings, i, PyGetItem(settings, opts[i].identifier))

\* for option in options: ... -- from options[i] on
ForEachOption(opts, settings, i) ==
    IF i > Len(opts) THEN Loop(opts, "none", <<>>)
    ELSE LoopAfterContains(opts, settings, i, PyContains(settings, opts[i].identifier))

\* a composite after the loop over its children
WithChildren(o, r) == R([o EXCEPT !.children = r.opts], r.exc, r.log)

GroupedOption_from_json(o, value) ==
    IF value[1] = "map" THEN WithChildren(o, ForEachOption(o.children, value, 1))
    ELSE LogError(o, value)

NestedOption_from_json(o, value) ==
    IF value[1] = "map" THEN WithChildren(o, ForEachOption(o.children, value, 1))
    ELSE LogError(o, value)

\* option._from_json(value): dispatch on the option's class
Option_from_json(o, value) ==
    CASE o.kind = "hidden"   -> HiddenOption_from_json(o, value)
      [] o.kind = "slider"   -> SliderOption_from_json(o, value)
      [] o.kind = "spinner"  -> SpinnerOption_from_json(o, value)
      [] o.kind = "bool"     -> BoolOption_from_json(o, value)
      [] o.kind = "dropdown" -> DropdownOption_from_json(o, value)
      [] o.kind = "button"   -> ButtonOption_from_json(o, value)
      [] o.kind = "keybind"  -> KeybindOption_from_json(o, value)
      [] o.kind = "group"    -> GroupedOption_from_json(o, value)
      [] o.kind = "nested"   -> NestedOption_from_json(o, value)

RECURSIVE Option_to_json(_)
RECURSIVE DictComp(_, _, _)

\* a variant of the comprehension without its filter
DictAdd_NoFilter(acc, identifier, child_json) == DictSet(acc, identifier, child_json)

\* one step of the comprehension: the item is added unless the child's
\* JSON is `...`
DictAdd(acc, identifier, child_json) ==
    IF child_json # Ellipsis THEN DictSet(acc, identifier, child_json) ELSE acc

\* {option.identifier: child_json for option in options
\*  if (child_json := option._to_json()) is not ...} -- from options[i] on
DictComp(opts, i, acc) ==
    IF i > Len(opts) THEN acc
    ELSE DictComp(opts, i + 1, DictAdd(acc, opts[i].identifier, Option_to_json(opts[i])))

ValueOption_to_json(o)   == o.value
\* a variant in which a button serializes as null
ButtonOption_to_json_Null(o) == JNull

ButtonOption_to_json(o)  == Ellipsis
GroupedOption_to_json(o) == DictComp(o.children, 1, JMap(<<>>))
NestedOption_to_json(o)  == DictComp(o.children, 1, JMap(<<>>))

\* option._to_json(): dispatch on the option's class
Option_to_json(o) ==
    CASE IsValueOption(o)    -> ValueOption_to_json(o)
      [] o.kind = "button"   -> ButtonOption_to_json(o)
      [] o.kind = "group"    -> GroupedOption_to_json(o)
      [] o.kind = "nested"   -> NestedOption_to_json(o)

-----------------------------------------------------------------------------
(* src/settings.py: loading and saving a mod's settings file *)

\* a keybind object, as far as settings.py reads and writes it
Keybind(identifier, key, is_rebindable) ==
    [identifier |-> identifier, key |-> key, is_rebindable |-> is_rebindable,
     default_key |-> key, display |-> Display(identifier, <<>>, identifier, FALSE)]

\* the file system at Mod.settings_file
NoFile        == [st |-> "missing", doc |-> JNull]
BadFile       == [st |-> "malformed", doc |-> JNull]
JsonFile(doc) == [st |-> "json", doc |-> doc]
\* a file known by its text, a sequence of JSON tokens
TextFile(tokens) == [st |-> "text", doc |-> <<"text", tokens>>]

\* the tokens of JSON text: punctuation, a complete literal (number,
\* string, true, false, null), and a piece of text that is no token, such
\* as an unterminated string or a literal cut short
Punct(c) == <<"p", c>>
Atom(x)  == <<"a", x>>
Cut      == <<"cut">>

RECURSIVE JsonDump(_)
RECURSIVE DumpItems(_, _)
RECURSIVE DumpPairs(_, _)
\* json.dump(settings, file): the text written, as tokens
JsonDump(x) ==
    CASE x[1] = "list" -> <<Punct("[")>> \o DumpItems(x[2], 1) \o <<Punct("]")>>
      [] x[1] = "map"  -> <<Punct("{")>> \o DumpPairs(x[2], 1) \o <<Punct("}")>>
      [] OTHER         -> <<Atom(x)>>

DumpItems(xs, i) ==
    IF i > Len(xs) THEN <<>>
    ELSE (IF i > 1 THEN <<Punct(",")>> ELSE <<>>) \o JsonDump(xs[i]) \o DumpItems(xs, i + 1)

DumpPairs(kvs, i) ==
    IF i > Len(kvs) THEN <<>>
    ELSE (IF i > 1 THEN <<Punct(",")>> ELSE <<>>)
         \o <<Atom(JStr(kvs[i][1])), Punct(":")>> \o JsonDump(kvs[i][2])
         \o DumpPairs(kvs, i + 1)

\* the outcome of parsing from a position: a value and the position after
\* it, or json.JSONDecodeError
Parsed(val, next) == [ok |-> TRUE, val |-> val, next |-> next]
DecodeError       == [ok |-> FALSE, val |-> JNull, next |-> 0]

IsPunct(ts, i, c) == i <= Len(ts) /\ ts[i] = Punct(c)
IsKey(ts, i)      == i <= Len(ts) /\ ts[i][1] = "a" /\ ts[i][2][1] = "str"

RECURSIVE ParseValue(_, _)
RECURSIVE ParseElems(_, _, _)
RECURSIVE ParseMembers(_, _, _)

\* after an element of an array: a comma and more, or the closing bracket
AfterElem(ts, acc, r) ==
    IF ~r.ok THEN DecodeError
    ELSE IF IsPunct(ts, r.next, ",") THEN ParseElems(ts, r.next + 1, Append(acc, r.val))
    ELSE IF IsPunct(ts, r.next, "]") THEN Parsed(JList(Append(acc, r.val)), r.next + 1)
    ELSE DecodeError

ParseElems(ts, i, acc) == AfterElem(ts, acc, ParseValue(ts, i))

\* after a member of an object: a comma and more, or the closing brace; a
\* key that comes again replaces the earlier entry
AfterMember(ts, acc, key, r) ==
    IF ~r.ok THEN DecodeError
    ELSE IF IsPunct(ts, r.next, ",") THEN ParseMembers(ts, r.next + 1, DictSet(acc, key, r.val))
    ELSE IF IsPunct(ts, r.next, "}") THEN Parsed(DictSet(acc, key, r.val), r.next + 1)
    ELSE DecodeError

ParseMembers(ts, i, acc) ==
    IF IsKey(ts, i) /\ IsPunct(ts, i + 1, ":")
    THEN AfterMember(ts, acc, ts[i][2][2], ParseValue(ts, i + 2))
    ELSE DecodeError

ParseValue(ts, i) ==
    IF i > Len(ts) THEN DecodeError
    ELSE IF ts[i][1] = "a" THEN Parsed(ts[i][2], i + 1)
    ELSE IF IsPunct(ts, i, "[")
         THEN IF IsPunct(ts, i + 1, "]") THEN Parsed(JList(<<>>), i + 2)
              ELSE ParseElems(ts, i + 1, <<>>)
    ELSE IF IsPunct(ts, i, "{")
         THEN IF IsPunct(ts, i + 1, "}") THEN Parsed(JMap(<<>>), i + 2)
              ELSE ParseMembers(ts, i + 1, JMap(<<>>))
    ELSE DecodeError

\* text after the value is an error too
WholeText(ts, r) == IF r.ok /\ r.next = Len(ts) + 1 THEN r ELSE DecodeError

\* json.load(file)
JsonLoad(ts) == WholeText(ts, ParseValue(ts, 1))

load_options_dict(opts, settings) == ForEachOption(opts, settings, 1)

\* the mod while default_load_mod_settings runs: what it has changed so
\* far, the exception that ended it ("none" while running), what it did
Running ==
    [options |-> options, keybinds |-> keybinds, is_enabled |-> is_enabled,
     exc |-> "none", log |-> <<>>]

\* Mod.enable(), as far as the settings code depends on it
Mod_enable(st) ==
    [st EXCEPT !.is_enabled = TRUE, !.log = Append(@, Ev("enable", <<>>, JNull))]

\* the mod after a section has been applied (or has raised)
Ran(st, opts, kbs, exc, log) ==
    [st EXCEPT !.options = opts, !.keybinds = kbs, !.exc = exc, !.log = @ \o log]

OptionsLoaded(st, r) == Ran(st, r.opts, st.keybinds, r.exc, r.log)

\* load_options_dict(self.options, settings["options"])
LoadOptionsItem(st, sec) ==
    IF sec.exc # "none" THEN [st EXCEPT !.exc = sec.exc]
    ELSE OptionsLoaded(st, load_options_dict(st.options, sec.val))

\* if "options" in settings:
LoadOptionsIf(st, settings, has) ==
    IF has.exc # "none" THEN [st EXCEPT !.exc = has.exc]
    ELSE IF ~has.val THEN st
    ELSE LoadOptionsItem(st, PyGetItem(settings, S_options))

LoadOptionsSection(st, settings) ==
    IF st.exc # "none" THEN st
    ELSE LoadOptionsIf(st, settings, PyContains(settings, S_options))

RECURSIVE ForEachKeybind(_, _, _)

\* the outcome of the loop over keybinds
KLoop(kbs, exc, log) == [kbs |-> kbs, exc |-> exc, log |-> log]

\* a variant without the test for None
LoadedKey_NoNone(key) == JStr(PyStr(key))

\* if key is None: keybind.key = None; else: keybind.key = str(key)
LoadedKey(key) == IF key = JNull THEN JNull ELSE JStr(PyStr(key))

KLoopCons(ev, rest) == [rest EXCEPT !.log = <<ev>> \o @]

KLoopAssign(kbs, saved, i, key) ==
    KLoopCons(Ev("key", kbs[i].identifier, key),
              ForEachKeybind([kbs EXCEPT ![i].key = key], saved, i + 1))

\* key = saved_keybinds[keybind.identifier]
KLoopAfterGetItem(kbs, saved, i, item) ==
    IF item.exc # "none" THEN KLoop(kbs, item.exc, <<>>)
    ELSE KLoopAssign(kbs, saved, i, LoadedKey(item.val))

\* if keybind.identifier in saved_keybinds:
KLoopAfterContains(kbs, saved, i, has) ==
    IF has.exc # "none" THEN KLoop(kbs, has.exc, <<>>)
    ELSE IF ~has.val THEN ForEachKeybind(kbs, saved, i + 1)
    ELSE KLoopAfterGetItem(kbs, saved, i, PyGetItem(saved, kbs[i].identifier))

\* for keybind in self.keybinds: ... -- from keybinds[i] on
ForEachKeybind(kbs, saved, i) ==
    IF i > Len(kbs) THEN KLoop(kbs, "none", <<>>)
    ELSE KLoopAfterContains(kbs, saved, i, PyContains(saved, kbs[i].identifier))

KeybindsLoaded(st, r) == Ran(st, st.options, r.kbs, r.exc, r.log)

\* saved_keybinds = settings["keybinds"]
LoadKeybindsItem(st, sec) ==
    IF sec.exc # "none" THEN [st EXCEPT !.exc = sec.exc]
    ELSE KeybindsLoaded(st, ForEachKeybind(st.keybinds, sec.val, 1))

\* if "keybinds" in settings:
LoadKeybindsIf(st, settings, has) ==
    IF has.exc # "none" THEN [st EXCEPT !.exc = has.exc]
    ELSE IF ~has.val THEN st
    ELSE LoadKeybindsItem(st, PyGetItem(settings, S_keybinds))

LoadKeybindsSection(st, settings) ==
    IF st.exc # "none" THEN st
    ELSE LoadKeybindsIf(st, settings, PyContains(settings, S_keybinds))

\* settings.get("enabled", False) has been evaluated
LoadEnabledIf(st, en) ==
    IF en.exc # "none" THEN [st EXCEPT !.exc = en.exc]
    ELSE IF PyBool(en.val) THEN Mod_enable(st)
    ELSE st

\* if self.auto_enable and settings.get("enabled", False): self.enable()
LoadEnabled(st, settings) ==
    IF st.exc # "none" THEN st
    ELSE IF ~auto_enable THEN st
    ELSE LoadEnabledIf(st, PyGet(settings, S_enabled, JBool(FALSE)))

\* the statements after the file has been read
ApplySettings(settings) ==
    LoadEnabled(LoadKeybindsSection(LoadOptionsSection(Running, settings), settings),
                settings)

\* a variant that does not catch json.JSONDecodeError
LoadParsed_NoCatch(r) ==
    IF r.ok THEN ApplySettings(r.val) ELSE [Running EXCEPT !.exc = "JSONDecodeError"]

\* except (FileNotFoundError, json.JSONDecodeError): return
LoadParsed(r) == IF r.ok THEN ApplySettings(r.val) ELSE Running

default_load_mod_settings ==
    IF settings_file = "None" THEN Running
    ELSE IF disk.st = "text" THEN LoadParsed(JsonLoad(disk.doc[2]))
    ELSE IF disk.st # "json" THEN Running
    ELSE ApplySettings(disk.doc)

create_options_dict(opts) == DictComp(opts, 1, JMap(<<>>))

RECURSIVE KeybindSettings_All(_, _, _)
\* a variant that saves every keybind, rebindable or not
KeybindSettings_All(kbs, i, acc) ==
    IF i > Len(kbs) THEN acc
    ELSE KeybindSettings_All(kbs, i + 1, DictSet(acc, kbs[i].identifier, kbs[i].key))

RECURSIVE KeybindSettings(_, _, _)
\* for keybind in self.keybinds: if not keybind.is_rebindable: continue;
\* keybind_settings[keybind.identifier] = keybind.key -- from keybinds[i] on
KeybindSettings(kbs, i, acc) ==
    IF i > Len(kbs) THEN acc
    ELSE IF ~kbs[i].is_rebindable THEN KeybindSettings(kbs, i + 1, acc)
    ELSE KeybindSettings(kbs, i + 1, DictSet(acc, kbs[i].identifier, kbs[i].key))

\* a variant that keeps an empty section
SetSection_Always(settings, key, section) == DictSet(settings, key, section)

\* if len(section) > 0: settings[key] = section
SetSection(settings, key, section) ==
    IF Len(section[2]) > 0 THEN DictSet(settings, key, section) ELSE settings

\* if len(self.options) > 0: ...
SaveOptionsSection(settings) ==
    IF Len(options) > 0
    THEN SetSection(settings, S_options, create_options_dict(options))
    ELSE settings

\* if len(self.keybinds) > 0: ...
SaveKeybindsSection(settings) ==
    IF Len(keybinds) > 0
    THEN SetSection(settings, S_keybinds, KeybindSettings(keybinds, 1, JMap(<<>>)))
    ELSE settings

\* a variant that writes the flag whether or not the mod auto-enables
SaveEnabled_Always(settings) == DictSet(settings, S_enabled, JBool(is_enabled))

\* if self.auto_enable: settings["enabled"] = self.is_enabled
SaveEnabled(settings) ==
    IF auto_enable THEN DictSet(settings, S_enabled, JBool(is_enabled))
    ELSE settings

\* the document default_save_mod_settings builds
SavedSettings == SaveEnabled(SaveKeybindsSection(SaveOptionsSection(JMap(<<>>))))

\* a variant that writes the document even when it is empty
WriteSettings_Always(settings) ==
    [disk |-> JsonFile(settings), log |-> <<Ev("write", <<>>, settings)>>, doc |-> settings]

\* if len(settings) == 0: unlink(missing_ok=True); else: json.dump(...)
\* -- the file afterwards, the file operations made, the document built
WriteSettings(settings) ==
    IF Len(settings[2]) = 0
    THEN [disk |-> NoFile, log |-> <<Ev("unlink", <<>>, JNull)>>, doc |-> settings]
    ELSE [disk |-> JsonFile(settings), log |-> <<Ev("write", <<>>, settings)>>,
          doc |-> settings]

default_save_mod_settings ==
    IF settings_file = "None" THEN [disk |-> disk, log |-> <<>>, doc |-> JNull]
    ELSE WriteSettings(SavedSettings)

\* what a write that stops inside a token can leave of it: nothing of a
\* one-character token, the leading digits of a number, the opening of a
\* string or of a literal
Fragments(tok) ==
    IF tok[1] # "a" THEN {}
    ELSE IF tok[2][1] = "float" THEN {Cut, Atom(JInt(tok[2][2] \div 10))}
    ELSE IF tok[2][1] = "int"
         THEN (IF tok[2][2] >= 10 THEN {Atom(JInt(tok[2][2] \div 10))} ELSE {})
              \cup (IF tok[2][2] < 0 THEN {Cut} ELSE {})
    ELSE {Cut}

\* self.settings_file.open("w") empties the file and json.dump writes the
\* text piece by piece: the texts a write that does not finish can leave
Truncated(ts) ==
    UNION { {SubSeq(ts, 1, n)} \cup {Append(SubSeq(ts, 1, n), f) : f \in Fragments(ts[n + 1])}
            : n \in 0..(Len(ts) - 1) }

-----
(* The mods and the files the model runs on *)

\* bounds
MaxAssigns == 1

Id(c) == <<c>>
S_a   == <<"a">>
S_b   == <<"b">>
S_c   == <<"c">>
S_z   == <<"z">>
S_F1  == <<"F","1">>
S_F2  == <<"F","2">>
S_F3  == <<"F","3">>
S_inf   == <<"i","n","f">>
S_1e999 == <<"1","e","9","9","9">>
S_1e1   == <<"1","e","1">>
S_7p6 == <<"7",".","6">>
S_abc == <<"a","b","c">>
ABC   == <<S_a, S_b, S_c>>

\* a dict literal with one or two items
D1(k, x)         == JMap(<< <<k, x>> >>)
D2(k, x, l, y)   == JMap(<< <<k, x>>, <<l, y>> >>)
D3(k, x, l, y, m, z) == JMap(<< <<k, x>>, <<l, y>>, <<m, z>> >>)

\* a mod with an option of every persisted kind, a button, and a group
\* holding a slider, a button and a nested group
RichOptions ==
    << SliderOption(Id("s"), JInt(5), TRUE),
       SpinnerOption(Id("p"), JStr(S_b), ABC),
       BoolOption(Id("b"), JBool(TRUE)),
       HiddenOption(Id("h"), JNull),
       ButtonOption(Id("u")),
       GroupedOption(Id("g"),
          << SliderOption(Id("x"), JFloat(25), FALSE),
             ButtonOption(Id("y")),
             NestedOption(Id("n"), << BoolOption(Id("z"), JBool(FALSE)) >>) >>) >>

RichKeybinds ==
    << Keybind(Id("j"), JStr(S_F1), TRUE), Keybind(Id("r"), JStr(S_F2), FALSE) >>

Mods ==
    << [options |-> RichOptions, keybinds |-> RichKeybinds, settings_file |-> "path"],
       \* only buttons, only a keybind that cannot be rebound
       [options |-> << ButtonOption(Id("u")), ButtonOption(Id("y")) >>,
        keybinds |-> << Keybind(Id("r"), JStr(S_F2), FALSE) >>,
        settings_file |-> "path"],
       \* composites that hold no value
       [options |-> << GroupedOption(Id("g"), << ButtonOption(Id("y")) >>),
                       NestedOption(Id("n"), <<>>) >>,
        keybinds |-> <<>>, settings_file |-> "path"],
       \* nothing at all
       [options |-> <<>>, keybinds |-> <<>>, settings_file |-> "path"],
       \* a mod without a settings file
       [options |-> << BoolOption(Id("b"), JBool(TRUE)) >>,
        keybinds |-> << Keybind(Id("j"), JStr(S_F1), TRUE) >>,
        settings_file |-> "None"] >>

OptDoc(section) == D1(S_options, section)
KeyDoc(section) == D1(S_keybinds, section)

\* settings documents: what a hand-edited, stale or foreign file may hold
Docs ==
    << \* a top-level value that is not an object
       JNull, JInt(5), JBool(TRUE), JStr(S_options), JStr(S_z), JList(<<>>),
       JList(<<JStr(S_options)>>),
       \* no options, no keybinds
       JMap(<<>>),
       D1(S_enabled, JBool(TRUE)), D1(S_enabled, JBool(FALSE)),
       D1(S_enabled, JStr(S_false)), D1(S_enabled, JNull),
       \* an options section that is not an object
       OptDoc(JNull), OptDoc(JInt(5)), OptDoc(JStr(<<"s","p">>)), OptDoc(JStr(S_z)),
       OptDoc(JList(<<JStr(Id("s"))>>)), OptDoc(JList(<<>>)),
       \* one entry
       OptDoc(JMap(<<>>)),
       OptDoc(D1(Id("s"), JInt(7))), OptDoc(D1(Id("s"), JStr(S_7p6))),
       OptDoc(D1(Id("s"), JStr(S_abc))), OptDoc(D1(Id("s"), JNull)),
       OptDoc(D1(Id("s"), JList(<<JInt(1)>>))),
       OptDoc(D1(Id("p"), JStr(S_c))), OptDoc(D1(Id("p"), JStr(S_z))),
       OptDoc(D1(Id("p"), JInt(1))),
       OptDoc(D1(Id("b"), JStr(S_False))), OptDoc(D1(Id("b"), JInt(0))),
       OptDoc(D1(Id("h"), D1(S_a, JInt(1)))), OptDoc(D1(Id("h"), JInt(5))),
       OptDoc(D1(Id("u"), JInt(5))),
       OptDoc(D1(Id("g"), JInt(5))), OptDoc(D1(Id("g"), JMap(<<>>))),
       OptDoc(D1(Id("g"), D1(Id("n"), JMap(<<>>)))),
       OptDoc(D1(Id("g"), D1(Id("x"), JFloat(76)))),
       OptDoc(D1(Id("g"), D1(Id("x"), JNull))),
       OptDoc(D1(Id("g"), D1(Id("y"), JInt(1)))),
       OptDoc(D1(Id("g"), D1(Id("n"), D1(S_z, JBool(TRUE))))),
       OptDoc(D1(Id("g"), D1(Id("n"), JInt(5)))),
       OptDoc(D1(Id("n"), D1(S_z, JBool(TRUE)))),
       \* several entries; a bad entry after good ones
       OptDoc(D2(Id("s"), JNull, Id("b"), JBool(FALSE))),
       D3(S_options, D3(Id("s"), JInt(7), Id("p"), JStr(S_c),
                        Id("g"), D2(Id("x"), JInt(1), Id("n"), D1(S_z, JBool(TRUE)))),
          S_keybinds, D1(Id("j"), JStr(S_F3)),
          S_enabled, JBool(TRUE)),
       D3(S_options, D3(Id("s"), JInt(7), Id("b"), JBool(FALSE),
                        Id("g"), D2(Id("n"), D1(S_z, JBool(TRUE)), Id("x"), JNull)),
          S_keybinds, D1(Id("j"), JStr(S_F3)),
          S_enabled, JBool(TRUE)),
       \* keybinds
       KeyDoc(JNull), KeyDoc(JStr(Id("j"))), KeyDoc(JList(<<JStr(Id("j"))>>)),
       KeyDoc(JMap(<<>>)),
       KeyDoc(D1(Id("j"), JNull)), KeyDoc(D1(Id("j"), JStr(S_F3))),
       KeyDoc(D1(Id("j"), JInt(5))), KeyDoc(D1(Id("r"), JStr(S_F3))),
       KeyDoc(D1(S_z, JStr(S_F3))),
       D2(S_keybinds, D1(Id("j"), JStr(S_F3)), S_enabled, JBool(TRUE)),
       D2(S_keybinds, JInt(5), S_enabled, JBool(TRUE)),
       \* a number too large for a float
       D2(S_options, D1(Id("s"), JInf(1)), S_enabled, JBool(TRUE)) >>

\* files known by their text: complete documents, an empty file, text
\* that is not JSON
Texts ==
    { JsonDump(Docs[43]), JsonDump(JList(<<JInt(1), JMap(<<>>)>>)),
      <<>>,
      <<Punct("{"), Atom(JStr(S_options)), Punct(":"), Punct("}")>>,
      <<Punct("{"), Atom(JStr(S_enabled)), Punct(":"), Atom(JBool(TRUE)), Punct(","), Punct("}")>>,
      <<Punct("{"), Atom(JInt(1)), Punct(":"), Atom(JBool(TRUE)), Punct("}")>>,
      <<Punct("{"), Atom(JStr(S_enabled)), Atom(JBool(TRUE)), Punct("}")>>,
      JsonDump(D1(S_enabled, JBool(TRUE))) \o <<Punct("}")>>,
      <<Punct("["), Atom(JInt(1)), Punct(","), Punct("]")>>,
      <<Atom(JBool(TRUE)), Atom(JBool(TRUE))>>,
      <<Cut>> }

Files ==
    {NoFile, BadFile} \cup {JsonFile(Docs[i]) : i \in 1..Len(Docs)}
       \cup {TextFile(t) : t \in Texts}

\* a record of the last call: the operation, the exception that left it
\* ("none" when it returned), what it did, and its argument
Call(op, exc, log, arg) == [op |-> op, exc |-> exc, log |-> log, arg |-> arg]
NoCall == Call("init", "none", <<>>, JNull)

Init ==
    /\ \E m \in 1..Len(Mods) :
          /\ options = Mods[m].options
          /\ keybinds = Mods[m].keybinds
          /\ settings_file = Mods[m].settings_file
    /\ auto_enable \in BOOLEAN
    /\ is_enabled = FALSE
    /\ disk \in Files
    /\ assigns = 0
    /\ call = NoCall
    /\ console_commands = {}
    /\ mod_list = <<>>

-----------------------------------------------------------------------------
(* Operations on the mod *)

\* mod.load_settings()
Loaded(r) ==
    /\ options' = r.options
    /\ keybinds' = r.keybinds
    /\ is_enabled' = r.is_enabled
    /\ call' = Call("load", r.exc, r.log, JNull)
    /\ UNCHANGED <<console_commands, mod_list, auto_enable, settings_file, disk, assigns>>

Load == Loaded(default_load_mod_settings)

\* mod.save_settings()
Saved(r) ==
    /\ disk' = r.disk
    /\ call' = Call("save", "none", r.log, r.doc)
    /\ UNCHANGED <<console_commands, mod_list, options, keybinds, auto_enable, is_enabled, settings_file, assigns>>

Save == Saved(default_save_mod_settings)

\* mod.save_settings() whose write does not finish (the disk fills up, the
\* file is closed under it): the file keeps the text written so far
SaveInterrupted ==
    /\ settings_file = "path"
    /\ SavedSettings # JMap(<<>>)
    /\ \E t \in Truncated(JsonDump(SavedSettings)) : disk' = TextFile(t)
    /\ call' = Call("save_interrupted", "OSError", <<Ev("write", <<>>, SavedSettings)>>,
                    SavedSettings)
    /\ UNCHANGED <<console_commands, mod_list, options, keybinds, auto_enable, is_enabled, settings_file, assigns>>

RECURSIVE ValuePaths(_)
\* the paths (child indices from the root) of the options that hold a value
ValuePaths(opts) ==
    UNION { IF IsValueOption(opts[i]) THEN {<<i>>}
            ELSE IF IsComposite(opts[i])
                 THEN {<<i>> \o p : p \in ValuePaths(opts[i].children)}
                 ELSE {} : i \in 1..Len(opts) }

RECURSIVE OptionAt(_, _)
OptionAt(opts, path) ==
    IF Len(path) = 1 THEN opts[path[1]]
    ELSE OptionAt(opts[path[1]].children, Tail(path))

RECURSIVE AssignAt(_, _, _)
\* option.value = v for the option at path
AssignAt(opts, path, v) ==
    IF Len(path) = 1 THEN [opts EXCEPT ![path[1]] = SetValue(@, v).opt]
    ELSE [opts EXCEPT ![path[1]].children = AssignAt(@, Tail(path), v)]

\* what the options menu offers for an option
MenuValues(o) ==
    CASE o.kind = "slider"  -> IF o.is_integer THEN {JInt(9)} ELSE {JFloat(15)}
      [] o.kind \in {"spinner", "dropdown"} -> {JStr(o.choices[1])}
      [] o.kind = "bool"    -> {JBool(~o.value[2])}
      [] o.kind = "hidden"  -> {JList(<<JInt(1)>>)}
      [] o.kind = "keybind" -> {JNull}

\* the menu (or a script) assigns an option's value
Assign(path, v) ==
    /\ assigns < MaxAssigns
    /\ assigns' = assigns + 1
    /\ options' = AssignAt(options, path, v)
    /\ call' = Call("assign", "none", <<Ev("set", OptionAt(options, path).identifier, v)>>, v)
    /\ UNCHANGED <<console_commands, mod_list, keybinds, auto_enable, is_enabled, settings_file, disk>>

\* the menu rebinds a keybind: keybind.key = key
Rebind(i, key) ==
    /\ assigns < MaxAssigns
    /\ assigns' = assigns + 1
    /\ keybinds[i].is_rebindable
    /\ keybinds' = [keybinds EXCEPT ![i].key = key]
    /\ call' = Call("rebind", "none", <<Ev("key", keybinds[i].identifier, key)>>, key)
    /\ UNCHANGED <<console_commands, mod_list, options, auto_enable, is_enabled, settings_file, disk>>

\* the user enables or disables the mod
SetEnabled(b) ==
    /\ is_enabled # b
    /\ is_enabled' = b
    /\ call' = Call(IF b THEN "enable" ELSE "disable", "none", <<>>, JNull)
    /\ UNCHANGED <<console_commands, mod_list, options, keybinds, auto_enable, settings_file, disk, assigns>>

Next ==
    \/ Load
    \/ Save
    \/ \E p \in ValuePaths(options) : \E v \in MenuValues(OptionAt(options, p)) : Assign(p, v)
    \/ \E i \in 1..Len(keybinds) : \E key \in {JNull, JStr(S_F3)} : Rebind(i, key)
    \/ \E b \in BOOLEAN : SetEnabled(b)

Spec == Init /\ [][Next]_vars

-----------------------------------------------------------------------------
(* A mod whose saves may be interrupted *)

\* a mod with a value at each level, a mod that saves nothing but the
\* enabled flag, a mod of empty composites
ModsInterrupted ==
    << [options |-> << SliderOption(Id("s"), JFloat(25), FALSE),
                       GroupedOption(Id("g"), << BoolOption(Id("z"), JBool(FALSE)),
                                                 ButtonOption(Id("y")) >>) >>,
        keybinds |-> << Keybind(Id("j"), JStr(S_F1), TRUE) >>,
        settings_file |-> "path"],
       Mods[2], Mods[3] >>

\* the mod as constructed; the settings file missing, unreadable or empty
InitInterrupted ==
    /\ \E m \in 1..Len(ModsInterrupted) :
          /\ options = ModsInterrupted[m].options
          /\ keybinds = ModsInterrupted[m].keybinds
          /\ settings_file = ModsInterrupted[m].settings_file
    /\ auto_enable \in BOOLEAN
    /\ is_enabled = FALSE
    /\ disk \in {NoFile, BadFile, TextFile(<<>>)}
    /\ assigns = 0
    /\ call = NoCall
    /\ console_commands = {}
    /\ mod_list = <<>>

NextInterrupted ==
    \/ Next
    \/ SaveInterrupted

SpecInterrupted == InitInterrupted /\ [][NextInterrupted]_vars

-----------------------------------------------------------------------------
(* One option on its own: _from_json and _to_json called directly *)

S_1    == <<"1">>
S_B    == <<"B">>
S_8sp  == <<" ","8"," ">>
S_FALSEsp == <<" ","F","A","L","S","E","\t">>

OptionSamples ==
    << SliderOption(Id("x"), JInt(5), TRUE),
       SliderOption(Id("x"), JInt(5), FALSE),
       SliderOption(Id("x"), JFloat(25), FALSE),
       \* integer-flagged with a non-integral value: construction only warns
       SliderOption(Id("x"), JFloat(76), TRUE),
       SpinnerOption(Id("x"), JStr(S_b), ABC),
       SpinnerOption(Id("x"), JStr(S_1), <<S_1, S_True, S_None>>),
       DropdownOption(Id("x"), JStr(S_a), ABC),
       BoolOption(Id("x"), JBool(TRUE)),
       HiddenOption(Id("x"), JNull),
       HiddenOption(Id("x"), D1(S_a, JList(<<JInt(1)>>))),
       KeybindOption(Id("x"), JNull, TRUE),
       KeybindOption(Id("x"), JStr(S_F1), TRUE),
       ButtonOption(Id("x")),
       GroupedOption(Id("g"),
          << SliderOption(Id("x"), JInt(5), TRUE), ButtonOption(Id("y")),
             BoolOption(Id("z"), JBool(TRUE)) >>),
       NestedOption(Id("n"),
          << SpinnerOption(Id("p"), JStr(S_b), ABC),
             GroupedOption(Id("g"), << BoolOption(Id("z"), JBool(TRUE)) >>) >>),
       GroupedOption(Id("g"), <<>>) >>

\* incoming JSON values of every type
JsonInputs ==
    << JNull, JBool(TRUE), JBool(FALSE),
       JInt(0), JInt(1), JInt(7), JInt(-3),
       JFloat(76), JFloat(75), JFloat(65), JFloat(80), JFloat(-5),
       JStr(<<>>), JStr(S_a), JStr(S_c), JStr(S_z), JStr(S_B), JStr(S_abc),
       JStr(S_false), JStr(S_False), JStr(S_FALSEsp), JStr(S_True), JStr(S_None),
       JStr(S_1), JStr(S_7p6), JStr(S_8sp), JStr(S_F3),
       \* 1e999 and Infinity in the file, NaN in the file, and as strs
       JInf(1), JNaN, JStr(S_inf), JStr(S_1e999), JStr(S_1e1),
       JList(<<>>), JList(<<JInt(1)>>),
       JMap(<<>>), D1(Id("x"), JInt(1)), D1(Id("x"), JNull), D1(Id("y"), JInt(1)),
       D2(Id("z"), JStr(S_false), Id("x"), JStr(S_7p6)),
       D2(Id("z"), JInt(0), Id("x"), JList(<<>>)),
       D2(Id("p"), JStr(S_c), Id("g"), D1(Id("z"), JBool(FALSE))),
       D1(Id("g"), JInt(5)) >>

InitOption ==
    /\ \E i \in 1..Len(OptionSamples) : options = <<OptionSamples[i]>>
    /\ keybinds = <<>>
    /\ auto_enable = FALSE
    /\ is_enabled = FALSE
    /\ settings_file = "None"
    /\ disk = NoFile
    /\ assigns = 0
    /\ call = NoCall
    /\ console_commands = {}
    /\ mod_list = <<>>

Called(op, r, arg) ==
    /\ options' = <<r.opt>>
    /\ call' = Call(op, r.exc, r.log, arg)
    /\ UNCHANGED <<console_commands, mod_list, keybinds, auto_enable, is_enabled, settings_file, disk, assigns>>

\* option._from_json(value)
FromJson(value) == Called("from_json", Option_from_json(options[1], value), value)

\* HiddenOption._to_json returns the object the option holds and _from_json
\* assigns that same object back: what it shared with default_value it shares still
SameObject(o, r) ==
    IF o.kind = "hidden" /\ r.exc = "none" THEN [r EXCEPT !.opt.shared = o.shared] ELSE r

\* option._from_json(option._to_json())
RoundTrip ==
    /\ Option_to_json(options[1]) # Ellipsis
    /\ Called("round_trip",
              SameObject(options[1],
                         Option_from_json(options[1], Option_to_json(options[1]))),
              Option_to_json(options[1]))

\* the program constructs a slider; when __post_init__ raises there is
\* no new object, and the option there was stays
Constructed(r, arg) ==
    /\ options' = IF r.exc = "none" THEN <<r.opt>> ELSE options
    /\ call' = Call("construct", r.exc, r.log, arg)
    /\ UNCHANGED <<console_commands, mod_list, keybinds, auto_enable, is_enabled, settings_file, disk, assigns>>

Construct(value, min_value, max_value, step, is_integer) ==
    Constructed(SliderOption_post_init(SliderOption(Id("x"), value, is_integer),
                                       min_value, max_value, step),
                <<"args", value, min_value, max_value, step, is_integer>>)

NextOption ==
    \/ \E i \in 1..Len(JsonInputs) : FromJson(JsonInputs[i])
    \/ RoundTrip
    \/ \E value \in {JInt(5), JFloat(76)}, min_value \in {JInt(0), JFloat(5)},
          max_value \in {JInt(10), JFloat(105), JInf(1)},
          step \in {JInt(1), JFloat(5), JInt(10), JInt(20)}, is_integer \in BOOLEAN :
          Construct(value, min_value, max_value, step, is_integer)

SpecOption == InitOption /\ [][NextOption]_vars

(* One value option on its own, with its callback and, for an option made *)
(* by KeybindOption.from_keybind, its keybind                              *)

S_Jump == <<"J","u","m","p">>

ValueSamples ==
    << WithCallback(BoolOption(Id("b"), JBool(TRUE)), "observe"),
       WithCallback(SliderOption(Id("s"), JInt(5), TRUE), "revert"),
       WithCallback(SliderOption(Id("f"), JFloat(25), FALSE), "observe"),
       WithCallback(HiddenOption(Id("h"), JList(<<JInt(1)>>)), "validate"),
       HiddenOption(Id("d"), JList(<<JInt(1)>>)),
       HiddenOption(Id("m"), D1(S_a, JInt(1))),
       HiddenOption(Id("n"), JInt(1)),
       SpinnerOption(Id("p"), JStr(S_b), ABC) >>

\* keybinds whose key is no longer the default one
BindSamples ==
    { [Keybind(Id("j"), JStr(S_F1), TRUE)
          EXCEPT !.default_key = JStr(S_F2),
                 !.display = Display(S_Jump, S_abc, S_a, TRUE)],
      [Keybind(Id("r"), JNull, FALSE) EXCEPT !.default_key = JStr(S_F1)] }

InitValue ==
    /\ \/ /\ \E i \in 1..Len(ValueSamples) : options = <<ValueSamples[i]>>
          /\ keybinds = <<>>
       \/ \E bind \in BindSamples :
             /\ keybinds = <<bind>>
             /\ options = <<KeybindOption_from_keybind(bind)>>
    /\ auto_enable = FALSE
    /\ is_enabled = FALSE
    /\ settings_file = "None"
    /\ disk = NoFile
    /\ assigns = 0
    /\ call = NoCall
    /\ console_commands = {}
    /\ mod_list = <<>>

RECURSIVE ApplyKeys(_, _)
\* the keybinds after the key assignments of a call
ApplyKeys(kbs, log) ==
    IF log = <<>> THEN kbs
    ELSE IF Head(log).ev # "key" THEN ApplyKeys(kbs, Tail(log))
    ELSE ApplyKeys([i \in DOMAIN kbs |->
                       IF kbs[i].identifier = Head(log).id
                       THEN [kbs[i] EXCEPT !.key = Head(log).val] ELSE kbs[i]],
                   Tail(log))

ValueCalled(op, r, arg) ==
    /\ options' = <<r.opt>>
    /\ keybinds' = ApplyKeys(keybinds, r.log)
    /\ call' = Call(op, r.exc, r.log, arg)
    /\ UNCHANGED <<console_commands, mod_list, auto_enable, is_enabled, settings_file, disk, assigns>>

\* what a script may assign to an option
ValueChoices(o) ==
    IF o.kind = "keybind" THEN {JNull, JStr(S_F3)}
    ELSE IF o.kind = "hidden" THEN MenuValues(o) \cup {o.default_value, JList(<<>>)}
    ELSE MenuValues(o) \cup {o.default_value}

\* option.value = v
AssignValue(v) == ValueCalled("assign", SetValue(options[1], v), v)

\* option._from_json(value)
LoadValue(value) == ValueCalled("from_json", Option_from_json(options[1], value), value)

\* value.append(2) on a list, value["k"] = 2 on a dict
Modified(v) ==
    IF v[1] = "list" THEN JList(Append(v[2], JInt(2)))
    ELSE JMap(Append(v[2], <<Id("k"), JInt(2)>>))

\* a script modifies in place the object a hidden option holds; no
\* attribute is assigned, so __setattr__ does not run
Modify ==
    /\ assigns < MaxAssigns
    /\ assigns' = assigns + 1
    /\ options[1].kind = "hidden"
    /\ IsMutable(options[1].value)
    /\ options' = << [options[1] EXCEPT
                        !.value = Modified(@),
                        !.default_value = IF options[1].shared THEN Modified(@) ELSE @] >>
    /\ call' = Call("modify", "none", <<>>, options[1].value)
    /\ UNCHANGED <<console_commands, mod_list, keybinds, auto_enable, is_enabled, settings_file, disk>>

\* KeybindOption.from_keybind(bind) of the keybind as it is now
FromKeybind ==
    /\ Len(keybinds) = 1
    /\ options' = <<KeybindOption_from_keybind(keybinds[1])>>
    /\ call' = Call("from_keybind", "none", <<>>, JNull)
    /\ UNCHANGED <<console_commands, mod_list, keybinds, auto_enable, is_enabled, settings_file, disk, assigns>>

NextValue ==
    \/ \E v \in ValueChoices(options[1]) : AssignValue(v)
    \/ \E value \in {JNull, JBool(FALSE), JInt(7), JStr(S_7p6), JStr(S_F3), JStr(S_c)} :
          LoadValue(value)
    \/ Modify
    \/ \E i \in 1..Len(keybinds) : \E key \in {JNull, JStr(S_F3)} : Rebind(i, key)
    \/ FromKeybind

SpecValue == InitValue /\ [][NextValue]_vars

-----------------------------------------------------------------------------
(* src/command.py: console commands and the capture of the next line *)

\* unrealsdk.commands.NEXT_LINE, the name under which the capture is registered
NEXT_LINE == "NEXT_LINE"

\* the outcome of a call on the registry: the registry afterwards and the
\* exception that left the call
Reg(cmds, exc) == [cmds |-> cmds, exc |-> exc]

\* has_command(cmd)
has_command(cmds, cmd) == \E c \in cmds : c.cmd = cmd

\* add_command(cmd, callback)
add_command(cmds, cmd, callback) == cmds \cup {[cmd |-> cmd, callback |-> callback]}

\* remove_command(cmd): nothing happens when cmd is not registered
remove_command(cmds, cmd) == {c \in cmds : c.cmd # cmd}

\* a variant without the test for a capture already registered
capture_next_console_line_NoCheck(cmds, callback) ==
    Reg(add_command(cmds, NEXT_LINE, callback), "none")

capture_next_console_line(cmds, callback) ==
    IF has_command(cmds, NEXT_LINE) THEN Reg(cmds, "RuntimeError")
    ELSE Reg(add_command(cmds, NEXT_LINE, callback), "none")

remove_next_console_line_capture(cmds) == Reg(remove_command(cmds, NEXT_LINE), "none")

\* AbstractCommand.enable: self.disable(); add_command(self.cmd, self._handle_cmd)
AbstractCommand_enable(cmds, cmd) ==
    Reg(add_command(remove_command(cmds, cmd), cmd, "_handle_cmd"), "none")

\* AbstractCommand.disable
AbstractCommand_disable(cmds, cmd) == Reg(remove_command(cmds, cmd), "none")

\* the callbacks given to capture_next_console_line: "once" and "other"
\* take the line and return, "again" captures the line after it as well
Callbacks == {"once", "other", "again"}

\* the commands of the mods
Commands == {"rlm", "py", "pyexec"}

InitCommand ==
    /\ options = <<>>
    /\ keybinds = <<>>
    /\ auto_enable = FALSE
    /\ is_enabled = FALSE
    /\ settings_file = "None"
    /\ disk = NoFile
    /\ assigns = 0
    /\ call = NoCall
    /\ console_commands \in {{}, {[cmd |-> "rlm", callback |-> "_handle_cmd"]}}
    /\ mod_list = <<>>

Registered(op, r, arg) ==
    /\ console_commands' = r.cmds
    /\ call' = Call(op, r.exc, <<>>, arg)
    /\ UNCHANGED <<options, keybinds, auto_enable, is_enabled, settings_file, disk,
                   assigns, mod_list>>

Capture(callback) ==
    Registered("capture", capture_next_console_line(console_commands, callback), callback)

RemoveCapture ==
    Registered("remove_capture", remove_next_console_line_capture(console_commands), JNull)

Enable(cmd) == Registered("enable_command", AbstractCommand_enable(console_commands, cmd), cmd)

Disable(cmd) == Registered("disable_command", AbstractCommand_disable(console_commands, cmd), cmd)

\* the callback the capture was registered with, when there is a capture
Captured(cmds) == (CHOOSE c \in cmds : c.cmd = NEXT_LINE).callback

\* lambda line, _: callback(line), the capture being gone when it runs
CaptureCallback(cmds, callback) ==
    IF callback = "again" THEN capture_next_console_line(cmds, callback)
    ELSE Reg(cmds, "none")

\* the user submits a line to the console while a capture is registered:
\* the capture is taken out, for it triggers only once, and its callback runs
ConsoleLine ==
    /\ has_command(console_commands, NEXT_LINE)
    /\ Registered("console_line",
                  CaptureCallback(remove_command(console_commands, NEXT_LINE),
                                  Captured(console_commands)),
                  Captured(console_commands))

NextCommand ==
    \/ \E callback \in Callbacks : Capture(callback)
    \/ RemoveCapture
    \/ \E cmd \in Commands : Enable(cmd)
    \/ \E cmd \in Commands : Disable(cmd)
    \/ ConsoleLine

SpecCommand == InitCommand /\ [][NextCommand]_vars

-----------------------------------------------------------------------------
(* src/mod_factory.py: build_mod *)

\* the keys of pyproject.toml and the attributes of a module that build_mod reads
K_tool == <<"t","o","o","l">>
K_sdkmod == <<"s","d","k","m","o","d">>
K_project == <<"p","r","o","j","e","c","t">>
K_name == <<"n","a","m","e">>
K_version == <<"v","e","r","s","i","o","n">>
K_auto_enable == <<"a","u","t","o","_","e","n","a","b","l","e">>
K_mod_type == <<"m","o","d","_","t","y","p","e">>
K_supported_games == <<"s","u","p","p","o","r","t","e","d","_","g","a","m","e","s">>
K_coop_support == <<"c","o","o","p","_","s","u","p","p","o","r","t">>
K_description == <<"d","e","s","c","r","i","p","t","i","o","n">>
K_authors == <<"a","u","t","h","o","r","s">>
K___name__ == <<"_","_","n","a","m","e","_","_">>
K___author__ == <<"_","_","a","u","t","h","o","r","_","_">>
K___version__ == <<"_","_","v","e","r","s","i","o","n","_","_">>
K___version_info__ == <<"_","_","v","e","r","s","i","o","n","_","i","n","f","o","_","_">>
K_on_enable == <<"o","n","_","e","n","a","b","l","e">>
K_on_disable == <<"o","n","_","d","i","s","a","b","l","e">>

\* ModFactoryFields
FieldNames ==
    {"name", "author", "description", "version", "_version_info", "mod_type",
     "supported_games", "coop_support", "settings_file", "keybinds", "options",
     "hooks", "commands", "auto_enable", "on_enable", "on_disable"}

\* the members of the enums of mod.py
ModType_members     == {<<"S","t","a","n","d","a","r","d">>, <<"L","i","b","r","a","r","y">>}
Game_members        == {<<"B","L","2">>, <<"T","P","S">>, <<"A","o","D","K">>}
CoopSupport_members == {<<"U","n","k","n","o","w","n">>, <<"C","l","i","e","n","t","S","i","d","e">>, <<"H","o","s","t","O","n","l","y">>}

\* if fields[f] is None and <has>: fields[f] = v
SetIfNone(fields, f, has, v) ==
    CHOOSE r \in { IF x[f] = JNull /\ has THEN [x EXCEPT ![f] = v] ELSE x : x \in {fields} } :
        TRUE

\* Enum.__members__.get(name): the member, or None
MemberGet(members, name) ==
    IF name[1] = "str" /\ name[2] \in members THEN <<"enum", name[2]>> ELSE JNull

\* [Game[name] for name in sdkmod["supported_games"] if name in Game.__members__]
ValidGames(names) == SelectSeq(names[2], LAMBDA n : n[1] = "str" /\ n[2] \in Game_members)

\* functools.reduce(operator.or_, valid_games)
GamesFlag(games) == <<"flag", {games[i][2] : i \in 1..Len(games)}>>

\* if valid_games: fields["supported_games"] = ...
SetGames(fields, sdkmod) ==
    IF fields.supported_games = JNull /\ DictHas(sdkmod, K_supported_games)
    THEN SetIfNone(fields, "supported_games",
                   ValidGames(DictGet(sdkmod, K_supported_games)) # <<>>,
                   GamesFlag(ValidGames(DictGet(sdkmod, K_supported_games))))
    ELSE fields

\* for simple_field in (...): if fields[simple_field] is None and key in table
SetFromTable(fields, f, table, key) ==
    SetIfNone(fields, f, DictHas(table, key), DictGet(table, key))

\* if fields[f] is None and key in sdkmod: fields[f] = members.get(sdkmod[key])
SetMember(fields, f, sdkmod, key, members) ==
    SetIfNone(fields, f, DictHas(sdkmod, key), MemberGet(members, DictGet(sdkmod, key)))

update_fields_with_pyproject_tool_sdkmod(sdkmod, fields) ==
    SetMember(
      SetGames(
        SetMember(
          SetFromTable(
            SetFromTable(
              SetFromTable(fields, "name", sdkmod, K_name),
              "version", sdkmod, K_version),
            "auto_enable", sdkmod, K_auto_enable),
          "mod_type", sdkmod, K_mod_type, ModType_members),
        sdkmod),
      "coop_support", sdkmod, K_coop_support, CoopSupport_members)

RECURSIVE JoinNames(_, _)
\* ", ".join(author["name"] for author in authors if "name" in author)
JoinNames(authors, first) ==
    IF authors = <<>> THEN <<>>
    ELSE IF ~DictHas(Head(authors), K_name) THEN JoinNames(Tail(authors), first)
    ELSE (IF first THEN <<>> ELSE <<",", " ">>) \o DictGet(Head(authors), K_name)[2]
         \o JoinNames(Tail(authors), FALSE)

update_fields_with_pyproject_project(project, fields) ==
    SetIfNone(
      SetFromTable(
        SetFromTable(
          SetFromTable(
            SetFromTable(fields, "name", project, K_name),
            "version", project, K_version),
          "description", project, K_description),
        "_version_info", project, K_version),
      "author", DictHas(project, K_authors),
      JStr(JoinNames(DictGet(project, K_authors)[2], TRUE)))

\* if "project" in toml_data: ...
UpdateWithProject(toml_data, fields) ==
    IF DictHas(toml_data, K_project)
    THEN update_fields_with_pyproject_project(DictGet(toml_data, K_project), fields)
    ELSE fields

\* a variant that reads the project section before tool.sdkmod
update_fields_with_pyproject_ProjectFirst(toml_data, fields) ==
    IF DictHas(toml_data, K_tool) /\ DictHas(DictGet(toml_data, K_tool), K_sdkmod)
    THEN update_fields_with_pyproject_tool_sdkmod(
             DictGet(DictGet(toml_data, K_tool), K_sdkmod),
             UpdateWithProject(toml_data, fields))
    ELSE UpdateWithProject(toml_data, fields)

\* toml_data is what load_pyproject(module) returned: the parsed file, or
\* an empty dict when there is none or it is malformed
update_fields_with_pyproject(toml_data, fields) ==
    IF DictHas(toml_data, K_tool) /\ DictHas(DictGet(toml_data, K_tool), K_sdkmod)
    THEN UpdateWithProject(toml_data,
             update_fields_with_pyproject_tool_sdkmod(
                 DictGet(DictGet(toml_data, K_tool), K_sdkmod), fields))
    ELSE UpdateWithProject(toml_data, fields)

RECURSIVE SplitDots(_, _)
\* v.split("."), acc being the part read so far
SplitDots(v, acc) ==
    IF v = <<>> THEN <<acc>>
    ELSE IF Head(v) = "." THEN <<acc>> \o SplitDots(Tail(v), <<>>)
    ELSE SplitDots(Tail(v), Append(acc, Head(v)))

\* int(x) of a str takes an optional sign and digits
IsIntStr(x) ==
    IF x # <<>> /\ x[1] \in {"+", "-"} THEN Len(x) > 1 /\ AllDigits(Tail(x))
    ELSE x # <<>> /\ AllDigits(x)

IntOf(x) ==
    IF x[1] = "-" THEN 0 - DigitsVal(Tail(x))
    ELSE IF x[1] = "+" THEN DigitsVal(Tail(x)) ELSE DigitsVal(x)

\* the default version_info_parser: tuple(int(x) for x in v.split("."))
version_info_parser(v) ==
    IF \A i \in 1..Len(SplitDots(v[2], <<>>)) : IsIntStr(SplitDots(v[2], <<>>)[i])
    THEN Ok(<<"tuple", [i \in 1..Len(SplitDots(v[2], <<>>)) |->
                          IntOf(SplitDots(v[2], <<>>)[i])]>>)
    ELSE Raise("ValueError")

\* a module: its attributes, and the objects inspect.getmembers finds in it
Module(attrs, members) == [attrs |-> attrs, members |-> members]

\* the outcome of the injection: the module afterwards, the exception
Injected(module, exc, log) == [module |-> module, exc |-> exc, log |-> log]

\* if not hasattr(module, "__version_info__") and fields["_version_info"] is not None
InjectVersionInfo(inj, fields, parsed) ==
    IF DictHas(inj.module.attrs, K___version_info__) \/ fields._version_info = JNull
    THEN inj
    ELSE IF parsed.exc # "none" THEN Injected(inj.module, parsed.exc, inj.log)
    ELSE Injected([inj.module EXCEPT !.attrs = DictSet(@, K___version_info__, parsed.val)],
                  "none", inj.log \o <<Ev("setattr", K___version_info__, parsed.val)>>)

\* if not hasattr(module, "__version__") and fields["version"] is not None
InjectVersion(module, fields) ==
    IF DictHas(module.attrs, K___version__) \/ fields.version = JNull
    THEN Injected(module, "none", <<>>)
    ELSE Injected([module EXCEPT !.attrs = DictSet(@, K___version__, fields.version)],
                  "none", <<Ev("setattr", K___version__, fields.version)>>)

\* if inject_version_from_pyproject: ...
inject_version(inject_version_from_pyproject, module, fields) ==
    IF ~inject_version_from_pyproject THEN Injected(module, "none", <<>>)
    ELSE InjectVersionInfo(InjectVersion(module, fields), fields,
                           IF fields._version_info = JNull THEN Raise("TypeError")
                           ELSE version_info_parser(fields._version_info))

\* SETTINGS_DIR / (module.__name__ + ".json")
DefaultSettingsFile(module) ==
    <<"path", DictGet(module.attrs, K___name__)[2] \o <<".","j","s","o","n">>>>

\* with contextlib.suppress(AttributeError): fields[f] = getattr(module, attr)
SetFromModule(fields, f, module, attr) ==
    SetIfNone(fields, f, DictHas(module.attrs, attr), DictGet(module.attrs, attr))

update_fields_with_module_attributes(module, fields) ==
    SetIfNone(
      SetFromModule(
        SetFromModule(
          SetFromModule(
            SetFromModule(
              SetFromModule(fields, "name", module, K___name__),
              "author", module, K___author__),
            "version", module, K___version__),
          "on_enable", module, K_on_enable),
        "on_disable", module, K_on_disable),
      "settings_file", TRUE, DefaultSettingsFile(module))

\* the members of the classes, in the order inspect.getmembers gives them
Found(module, classes) == SelectSeq(module.members, LAMBDA v : v[2] \in classes)

\* if find and new: fields[f] = new
SetFound(fields, f, module, classes) ==
    SetIfNone(fields, f, Found(module, classes) # <<>>, JList(Found(module, classes)))

\* warnings.warn(...) for each GroupedOption and NestedOption met while
\* options are searched for
SearchWarnings(module, fields) ==
    IF fields.options # JNull THEN <<>>
    ELSE [i \in 1..Len(Found(module, {"GroupedOption", "NestedOption"})) |->
             Ev("warning", Found(module, {"GroupedOption", "NestedOption"})[i][3], JNull)]

update_fields_with_module_search(module, fields) ==
    SetFound(
      SetFound(
        SetFound(
          SetFound(fields, "keybinds", module, {"Keybind"}),
          "options", module,
          {"BoolOption", "SliderOption", "ButtonOption", "KeybindOption"}),
        "hooks", module, {"Hook"}),
      "commands", module, {"Command"})

\* kwargs = {k: v for k, v in fields.items() if v is not None and not k.startswith("_")}
Kwargs(fields) ==
    [k \in {f \in FieldNames : fields[f] # JNull /\ f # "_version_info"} |-> fields[k]]

\* mod_list.py: register_mod(mod) adds the mod at the end of mod_list
register_mod(mods, mod) == Append(mods, mod)

\* mod_list.py: deregister_mod(mod) takes the mod, here the i-th, out of mod_list
deregister_mod(mods, i) == SubSeq(mods, 1, i - 1) \o SubSeq(mods, i + 1, Len(mods))

\* mods_to_remove = [mod for mod in mod_list if mod.settings_file == settings_file]
ModsToRemove(mods, file) == {i \in 1..Len(mods) : mods[i].settings_file = file}

RECURSIVE deregister_using_settings_file(_, _)
\* for mod in mods_to_remove: deregister_mod(mod)
deregister_using_settings_file(mods, file) ==
    IF ModsToRemove(mods, file) = {} THEN mods
    ELSE deregister_using_settings_file(
             deregister_mod(mods, CHOOSE i \in ModsToRemove(mods, file) :
                                      \A j \in ModsToRemove(mods, file) : i <= j),
             file)

\* a variant that deregisters nothing
Deregistered_Never(mods, deregister_same_settings, fields) == mods

\* if deregister_same_settings and fields["settings_file"] is not None: ...
Deregistered(mods, deregister_same_settings, fields) ==
    IF deregister_same_settings /\ fields.settings_file # JNull
    THEN deregister_using_settings_file(mods, fields.settings_file)
    ELSE mods

\* the mods that were deregistered, as events
DeregisterLog(before, after) ==
    [i \in 1..(Len(before) - Len(after)) |-> Ev("deregister_mod", "mod_list", JNull)]

\* the outcome of build_mod: the registered mods, the exception, what was
\* done, and the arguments the mod class was constructed with
Built(mods, exc, log, kwargs) == [mods |-> mods, exc |-> exc, log |-> log, kwargs |-> kwargs]

\* from update_fields_with_module_attributes on: the fields are complete,
\* mods are deregistered, mod = cls(**kwargs); register_mod(mod)
BuildRegister(mods, deregister_same_settings, log, fields) ==
    Built(register_mod(Deregistered(mods, deregister_same_settings, fields), Kwargs(fields)),
          "none",
          log \o DeregisterLog(mods, Deregistered(mods, deregister_same_settings, fields))
              \o <<Ev("register_mod", "mod_list", JNull)>>,
          Kwargs(fields))

BuildAfterInject(mods, deregister_same_settings, inj, fields) ==
    IF inj.exc # "none" THEN Built(mods, inj.exc, inj.log, JNull)
    ELSE BuildRegister(mods, deregister_same_settings,
             inj.log \o SearchWarnings(inj.module,
                            update_fields_with_module_attributes(inj.module, fields)),
             update_fields_with_module_search(inj.module,
                 update_fields_with_module_attributes(inj.module, fields)))

BuildAfterPyproject(mods, deregister_same_settings, inject, module, fields) ==
    BuildAfterInject(mods, deregister_same_settings,
                     inject_version(inject, module, fields), fields)

\* build_mod(**args) called from module, beside whose file pyproject.toml
\* holds toml_data
build_mod(mods, deregister_same_settings, inject, args, toml_data, module) ==
    BuildAfterPyproject(mods, deregister_same_settings, inject, module,
                        update_fields_with_pyproject(toml_data, args))

\* an object of a class, bound to a name
Obj(class, name) == <<"obj", class, name>>

\* build_mod called with no argument
NoArgs == [f \in FieldNames |-> JNull]

ArgSamples ==
    << NoArgs,
       [NoArgs EXCEPT !.name = JStr(<<"A">>), !.version = JStr(<<"9">>),
                      !.auto_enable = JBool(FALSE), !.mod_type = <<"enum", <<"L","i","b","r","a","r","y">>>>],
       [NoArgs EXCEPT !.keybinds = JList(<<>>), !.options = JList(<<Obj("GroupedOption", "g")>>),
                      !.settings_file = <<"path", <<"n",".","j","s","o","n">>>>],
       [NoArgs EXCEPT !.author = JStr(<<"B">>), !.description = JStr(<<>>),
                      !.supported_games = <<"flag", {<<"T","P","S">>}>>,
                      !.coop_support = <<"enum", <<"H","o","s","t","O","n","l","y">>>>,
                      !.on_enable = Obj("function", "e")],
       [NoArgs EXCEPT !.hooks = JList(<<Obj("Hook", "i")>>), !.commands = JList(<<>>),
                      !.on_disable = Obj("function", "d"), !.name = JStr(<<>>)] >>

\* what load_pyproject returns: no file; both sections; project only;
\* names that are no enum member, authors without a name and a version that
\* is not dotted numbers; a tool table without sdkmod and no authors
TomlSamples ==
    << JMap(<<>>),
       D2(K_tool, D1(K_sdkmod,
              JMap(<< <<K_name, JStr(<<"T">>)>>, <<K_version, JStr(<<"2",".","0">>)>>,
                      <<K_auto_enable, JBool(TRUE)>>, <<K_mod_type, JStr(<<"L","i","b","r","a","r","y">>)>>,
                      <<K_supported_games, JList(<<JStr(<<"B","L","2">>), JStr(<<"b","l","3">>), JStr(<<"T","P","S">>)>>)>>,
                      <<K_coop_support, JStr(<<"C","l","i","e","n","t","S","i","d","e">>)>> >>)),
          K_project,
              JMap(<< <<K_name, JStr(<<"P">>)>>, <<K_version, JStr(<<"1",".","2">>)>>,
                      <<K_description, JStr(<<"D">>)>>,
                      <<K_authors, JList(<<D1(K_name, JStr(<<"X">>)),
                                           D1(<<"e">>, JStr(<<"x">>)),
                                           D1(K_name, JStr(<<"Y">>))>>)>> >>)),
       D1(K_project, D2(K_name, JStr(<<"P">>), K_version, JStr(<<"1",".","2">>))),
       D2(K_tool, D1(K_sdkmod,
              JMap(<< <<K_auto_enable, JBool(FALSE)>>, <<K_mod_type, JStr(<<"l","i","b","r","a","r","y">>)>>,
                      <<K_supported_games, JList(<<JStr(<<"b","l","2">>)>>)>>,
                      <<K_coop_support, JStr(<<"B","o","g","u","s">>)>> >>)),
          K_project,
              D2(K_version, JStr(<<"1",".","0","a">>),
                 K_authors, JList(<<D1(<<"e">>, JStr(<<"x">>))>>))),
       D2(K_tool, D1(K_name, JStr(<<"T">>)),
          K_project, D1(K_authors, JList(<<>>))) >>

ModuleSamples ==
    << Module(D1(K___name__, JStr(<<"m">>)), <<>>),
       Module(JMap(<< <<K___name__, JStr(<<"m">>)>>, <<K___author__, JStr(<<"U">>)>>,
                      <<K___version__, JStr(<<"0",".","1">>)>>,
                      <<K___version_info__, <<"tuple", <<0, 1>>>> >>,
                      <<K_on_enable, Obj("function", "on_enable")>>,
                      <<K_on_disable, Obj("function", "on_disable")>> >>),
              << Obj("BoolOption", "b"), Obj("Command", "c"), Obj("GroupedOption", "g"),
                 Obj("Hook", "h"), Obj("Keybind", "k"), Obj("function", "on_disable"),
                 Obj("function", "on_enable"), Obj("SliderOption", "s") >>),
       Module(D3(K___name__, JStr(<<"n">>), K___author__, JStr(<<"V">>),
                 K_on_enable, Obj("function", "on_enable")),
              << Obj("NestedOption", "n"), Obj("function", "on_enable"),
                 Obj("KeybindOption", "o") >>) >>

\* the arguments of a call of build_mod, as indices into the samples
BuildArg(a, t, m, deregister_same_settings, inject) ==
    [a |-> a, t |-> t, m |-> m, deregister_same_settings |-> deregister_same_settings,
     inject |-> inject]

InitFactory ==
    /\ options = <<>>
    /\ keybinds = <<>>
    /\ auto_enable = FALSE
    /\ is_enabled = FALSE
    /\ settings_file = "None"
    /\ disk = NoFile
    /\ assigns = 0
    /\ call = NoCall
    /\ console_commands = {}
    /\ mod_list = <<>>

BuildCalled(r, arg) ==
    /\ mod_list' = r.mods
    /\ call' = Call("build_mod", r.exc, r.log, arg)
    /\ UNCHANGED <<console_commands, options, keybinds, auto_enable, is_enabled,
                   settings_file, disk, assigns>>

Build(a, t, m, deregister_same_settings, inject) ==
    BuildCalled(build_mod(mod_list, deregister_same_settings, inject,
                          ArgSamples[a], TomlSamples[t], ModuleSamples[m]),
                BuildArg(a, t, m, deregister_same_settings, inject))

\* one module calls build_mod, with every combination of the sources
NextFields ==
    /\ mod_list = <<>>
    /\ \E a \in 1..Len(ArgSamples), t \in 1..Len(TomlSamples), m \in 1..Len(ModuleSamples) :
           \E inject \in BOOLEAN : Build(a, t, m, TRUE, inject)

SpecFields == InitFactory /\ [][NextFields]_vars

MaxMods == 2

\* modules are loaded and reloaded, each load calling build_mod, while no
\* more than MaxMods mods are registered
NextFactory ==
    \E a \in {1, 3}, t \in {1, 2}, m \in 1..Len(ModuleSamples) :
        \E deregister_same_settings \in BOOLEAN :
            /\ Build(a, t, m, deregister_same_settings, TRUE)
            /\ Len(mod_list') <= MaxMods

SpecFactory == InitFactory /\ [][NextFactory]_vars

-----------------------------------------------------------------------------
(* Properties of one option *)

\* the number a JSON number stands for, in tenths
Tenths(v) == IF v[1] = "int" THEN 10 * v[2] ELSE v[2]

IsNumber(v) == v[1] \in {"int", "float"}

\* Python's ==, on the values an option holds
SameValue(a, b) ==
    IF IsNumber(a) /\ IsNumber(b) THEN Tenths(a) = Tenths(b) ELSE a = b

\* value is not something the kind of option o can take
InvalidFor(o, value) ==
    CASE o.kind = "slider" -> PyFloat(value).exc # "none"
      [] o.kind \in {"spinner", "dropdown"} -> ~InChoices(PyStr(value), o.choices)
      [] IsComposite(o) -> value[1] # "map"
      [] OTHER -> FALSE

\* the value of o lies in the domain of its kind
InDomain(o) ==
    CASE o.kind = "slider" ->
            /\ IsNumber(o.value)
            /\ o.is_integer => Tenths(o.value) % 10 = 0
      [] o.kind \in {"spinner", "dropdown"} ->
            o.value[1] = "str" /\ InChoices(o.value[2], o.choices)
      [] o.kind = "bool" -> o.value[1] = "bool"
      [] o.kind = "keybind" -> o.value[1] \in {"null", "str"}
      [] o.kind = "hidden" -> TRUE
      [] OTHER -> FALSE

\* C1: _from_json never raises, whatever JSON value it is given, and a
\* value that is invalid for the option leaves the option as it was
C1_FromJsonNeverRaises ==
    [][call'.op = "from_json" =>
          /\ call'.exc = "none"
          /\ InvalidFor(options[1], call'.arg) => options'[1] = options[1]]_vars

-----------------------------------------------------------------------------
(* Properties of loading a mod's settings *)

\* the settings file holds a JSON document
HasDocument == settings_file = "path" /\ disk.st = "json"

\* the document is an object whose section key is an object
HasSection(doc, key) ==
    /\ doc[1] = "map"
    /\ DictHas(doc, key)
    /\ DictGet(doc, key)[1] = "map"

\* every top-level option whose entry in the options section is invalid
\* for it is after the load what it was before
BadEntriesKept ==
    HasSection(disk.doc, S_options) =>
        \A i \in 1..Len(options) :
            ( /\ DictHas(DictGet(disk.doc, S_options), options[i].identifier)
              /\ InvalidFor(options[i],
                            DictGet(DictGet(disk.doc, S_options), options[i].identifier)) )
            => options'[i] = options[i]

\* C2: default_load_mod_settings never lets an exception escape, whatever
\* JSON document the settings file holds, and an option whose entry is bad
\* keeps its prior value
C2_LoadNeverRaises ==
    [][(call'.op = "load" /\ HasDocument) =>
          /\ call'.exc = "none"
          /\ BadEntriesKept]_vars

RECURSIVE Untouched(_, _, _)
\* every option of old that section has no entry for is the same in new,
\* descendants included, at every level that section reaches
Untouched(old, new, section) ==
    \A i \in 1..Len(old) :
        IF ~DictHas(section, old[i].identifier) THEN new[i] = old[i]
        ELSE ( /\ IsComposite(old[i])
               /\ DictGet(section, old[i].identifier)[1] = "map" )
             => Untouched(old[i].children, new[i].children,
                          DictGet(section, old[i].identifier))

RECURSIVE NoValueEntry(_, _)
\* section has no entry for any value option of opts, at any level: its
\* entries are for buttons, for composites, or for no option at all
NoValueEntry(opts, section) ==
    \A i \in 1..Len(opts) :
        DictHas(section, opts[i].identifier) =>
            \/ opts[i].kind = "button"
            \/ /\ IsComposite(opts[i])
               /\ DictGet(section, opts[i].identifier)[1] = "map"
                     => NoValueEntry(opts[i].children, DictGet(section, opts[i].identifier))

\* C4: loading an options section leaves every option the section has no
\* entry for untouched, at the top level and inside every group and nested
\* option; and a document whose entries reach no value option raises
\* nothing and changes nothing
C4_AbsentKeyUntouched ==
    [][(call'.op = "load" /\ HasDocument /\ HasSection(disk.doc, S_options)) =>
          /\ Untouched(options, options', DictGet(disk.doc, S_options))
          /\ ( /\ NoValueEntry(options, DictGet(disk.doc, S_options))
               /\ ~DictHas(disk.doc, S_keybinds) )
             => (call'.exc = "none" /\ options' = options)]_vars

\* the rich mod, whose slider s was set to 9, has loaded a document that
\* only has an entry for z inside n inside g: z is loaded, s is still 9
C4_Witness ==
    /\ call.op = "load"
    /\ call.exc = "none"
    /\ settings_file = "path"
    /\ disk = JsonFile(OptDoc(D1(Id("g"), D1(Id("n"), D1(Id("z"), JBool(TRUE))))))
    /\ call.log = << Ev("set", Id("z"), JBool(TRUE)) >>
    /\ options = [RichOptions EXCEPT ![1].value = JInt(9),
                                     ![6].children[3].children[1].value = JBool(TRUE)]

\* the document is an object whose "enabled" entry is truthy
MarksEnabled(doc) ==
    /\ doc[1] = "map"
    /\ DictHas(doc, S_enabled)
    /\ PyBool(DictGet(doc, S_enabled))

\* the positions in log at which Mod.enable was called
EnableCalls(log) == {i \in 1..Len(log) : log[i].ev = "enable"}

\* C5: load invokes the mod's enable operation if and only if the mod
\* auto-enables and the document marks it enabled, and then exactly once and
\* after every assignment load makes to an option or a keybind
C5_EnableIffMarkedAndLast ==
    (call.op = "load" /\ HasDocument) =>
        /\ EnableCalls(call.log) # {} <=> (auto_enable /\ MarksEnabled(disk.doc))
        /\ Cardinality(EnableCalls(call.log)) <= 1
        /\ EnableCalls(call.log) \subseteq {Len(call.log)}

\* the same, for the loads that return normally
C5_WhenLoadReturns ==
    (call.op = "load" /\ HasDocument /\ call.exc = "none") =>
        /\ EnableCalls(call.log) # {} <=> (auto_enable /\ MarksEnabled(disk.doc))
        /\ Cardinality(EnableCalls(call.log)) <= 1
        /\ EnableCalls(call.log) \subseteq {Len(call.log)}

-----------------------------------------------------------------------------
(* Properties of saving a mod's settings *)

\* the last operation was a save of a mod that has a settings file;
\* call.arg is the document that save built
JustSaved == call.op = "save" /\ settings_file = "path"

\* the file operations of kind ev that the last operation made
FileOps(ev) == {i \in 1..Len(call.log) : call.log[i].ev = ev}

\* C6: save never writes an empty document: when the document it built has
\* no section it unlinks the settings file and writes nothing, so that no
\* file exists afterwards; otherwise the file holds that non-empty document
C6_NeverWritesEmptyDocument ==
    JustSaved =>
        /\ call.arg = SavedSettings
        /\ call.exc = "none"
        /\ disk # JsonFile(JMap(<<>>))
        /\ IF call.arg = JMap(<<>>)
           THEN disk = NoFile /\ FileOps("write") = {} /\ FileOps("unlink") # {}
           ELSE disk = JsonFile(call.arg) /\ FileOps("unlink") = {}

\* a mod that has options, none of which is saved, was saved: the file is gone
C6_Witness ==
    /\ JustSaved
    /\ Len(options) > 0
    /\ Len(keybinds) > 0
    /\ call.arg = JMap(<<>>)
    /\ call.log = << Ev("unlink", <<>>, JNull) >>
    /\ disk = NoFile

RECURSIVE NoPersistedValue(_)
\* opts are only buttons and composites without a value below them
NoPersistedValue(opts) ==
    \A i \in 1..Len(opts) :
        \/ opts[i].kind = "button"
        \/ IsComposite(opts[i]) /\ NoPersistedValue(opts[i].children)

NoRebindableKeybind == \A i \in 1..Len(keybinds) : ~keybinds[i].is_rebindable

\* C7, as stated: saving a mod whose options are only buttons and
\* composites without a value, with no rebindable keybind and without
\* auto-enable, removes the settings file and writes nothing
C7_NoPersistedValueRemovesFile ==
    (JustSaved /\ NoPersistedValue(options) /\ NoRebindableKeybind /\ ~auto_enable) =>
        /\ disk = NoFile
        /\ FileOps("write") = {}

\* C7: saving a mod whose top-level options are all buttons, with no
\* rebindable keybind and without auto-enable, removes the settings file and
\* writes nothing; a group or nested option at the top level always
\* serializes as a document, empty when it holds no value, so that a mod
\* which has one is written to the file
C7_OnlyButtonsRemovesFile ==
    (JustSaved /\ NoRebindableKeybind /\ ~auto_enable) =>
        /\ (\A i \in 1..Len(options) : options[i].kind = "button") =>
              (disk = NoFile /\ FileOps("write") = {} /\ FileOps("unlink") # {})
        /\ (\E i \in 1..Len(options) : IsComposite(options[i])) =>
              (disk = JsonFile(call.arg) /\ DictHas(call.arg, S_options))

\* the mod of two buttons and a keybind that cannot be rebound was saved
C7_Witness ==
    /\ JustSaved
    /\ ~auto_enable
    /\ options = << ButtonOption(Id("u")), ButtonOption(Id("y")) >>
    /\ keybinds = << Keybind(Id("r"), JStr(S_F2), FALSE) >>
    /\ FileOps("unlink") # {}
    /\ disk = NoFile

\* the top-level options that serialize to a non-absent value
NonAbsent == {i \in 1..Len(options) : Option_to_json(options[i]) # Ellipsis}

\* C8: the saved document has an options section iff some top-level option
\* serializes to a non-absent value, and the section maps exactly the
\* identifiers of those options to their serialized values
C8_OptionsSection ==
    JustSaved =>
        /\ DictHas(call.arg, S_options) <=> NonAbsent # {}
        /\ DictHas(call.arg, S_options) =>
              /\ DictGet(call.arg, S_options)[1] = "map"
              /\ DictKeys(DictGet(call.arg, S_options))
                    = {options[i].identifier : i \in NonAbsent}
              /\ Len(DictGet(call.arg, S_options)[2]) = Cardinality(NonAbsent)
              /\ \A i \in NonAbsent :
                    DictGet(DictGet(call.arg, S_options), options[i].identifier)
                       = Option_to_json(options[i])

\* the rich mod was saved after its slider s was set to 9: the section has
\* the five options that hold something, and nothing for the button u
C8_Witness ==
    /\ JustSaved
    /\ Len(options) = 6
    /\ options[1].value = JInt(9)
    /\ DictHas(call.arg, S_options)
    /\ Len(DictGet(call.arg, S_options)[2]) = 5
    /\ DictGet(DictGet(call.arg, S_options), Id("s")) = JInt(9)
    /\ ~DictHas(DictGet(call.arg, S_options), Id("u"))

\* the keybinds that can be rebound
Rebindable == {i \in 1..Len(keybinds) : keybinds[i].is_rebindable}

\* C9: the saved document has a keybinds section iff the mod has a
\* rebindable keybind, and the section maps exactly the identifiers of the
\* rebindable keybinds to their current key, null when it is None
C9_KeybindsSection ==
    JustSaved =>
        /\ DictHas(call.arg, S_keybinds) <=> Rebindable # {}
        /\ DictHas(call.arg, S_keybinds) =>
              /\ DictGet(call.arg, S_keybinds)[1] = "map"
              /\ DictKeys(DictGet(call.arg, S_keybinds))
                    = {keybinds[i].identifier : i \in Rebindable}
              /\ Len(DictGet(call.arg, S_keybinds)[2]) = Cardinality(Rebindable)
              /\ \A i \in Rebindable :
                    DictGet(DictGet(call.arg, S_keybinds), keybinds[i].identifier)
                       = keybinds[i].key

\* the rich mod was saved after its keybind j was unbound: j is saved as
\* null, and r, which cannot be rebound, is not saved
C9_Witness ==
    /\ JustSaved
    /\ keybinds = [RichKeybinds EXCEPT ![1].key = JNull]
    /\ DictHas(call.arg, S_keybinds)
    /\ DictGet(call.arg, S_keybinds) = D1(Id("j"), JNull)

\* C10: the saved document has an enabled entry iff the mod auto-enables,
\* and the entry is whether the mod is enabled when it is saved
C10_EnabledEntry ==
    JustSaved =>
        /\ DictHas(call.arg, S_enabled) <=> auto_enable
        /\ DictHas(call.arg, S_enabled) => DictGet(call.arg, S_enabled) = JBool(is_enabled)

\* an auto-enabling mod was saved while it was enabled
C10_Witness ==
    /\ JustSaved
    /\ auto_enable
    /\ is_enabled
    /\ DictHas(call.arg, S_enabled)
    /\ DictGet(call.arg, S_enabled) = JBool(TRUE)

-----------------------------------------------------------------------------
(* Properties of loading a missing or malformed file *)

\* C11: when the settings file is missing, or is not parseable JSON (an
\* unreadable file, an empty file, a file an interrupted save left cut at
\* any point), load raises nothing, changes no option and no keybind,
\* and does not call enable
C11_MissingOrMalformedIsNoSettings ==
    [][(call'.op = "load" /\ settings_file = "path" /\ disk.st # "json") =>
          /\ call'.exc = "none"
          /\ options' = options
          /\ keybinds' = keybinds
          /\ is_enabled' = is_enabled
          /\ call'.log = <<>>]_vars

\* an auto-enabling mod whose slider was set to 1.5 has loaded a file that
\* an interrupted save left cut inside the options section
C11_Witness ==
    /\ call.op = "load"
    /\ call.exc = "none"
    /\ call.log = <<>>
    /\ auto_enable
    /\ ~is_enabled
    /\ disk.st = "text"
    /\ Len(disk.doc[2]) > 6
    /\ disk.doc[2][Len(disk.doc[2])] = Atom(JInt(1))
    /\ Len(options) = 2
    /\ options[1].value = JFloat(15)

-----------------------------------------------------------------------------
(* Properties of the coercions of each kind of option *)

\* the last call gave value to the _from_json of an option of one of kinds
Loading(kinds) == call'.op = "from_json" /\ options[1].kind \in kinds

\* the str s is, character for character, one of the option's choices
IsChoice(o, s) == \E i \in 1..Len(o.choices) : o.choices[i] = s

\* C12: a spinner or dropdown takes the str form of the incoming value iff
\* it is exactly one of the choices; for every other value it logs an
\* error, raises nothing and keeps its value
C12_ChoiceOnlyIfExactMatch ==
    [][Loading({"spinner", "dropdown"}) =>
          /\ call'.exc = "none"
          /\ IF IsChoice(options[1], PyStr(call'.arg))
             THEN /\ options'[1] = [options[1] EXCEPT !.value = JStr(PyStr(call'.arg))]
                  /\ \A i \in 1..Len(call'.log) : call'.log[i].ev # "error"
             ELSE /\ options'[1] = options[1]
                  /\ \E i \in 1..Len(call'.log) : call'.log[i].ev = "error"
          \* what the str form is: 1 is "1", true is "True", "B" is not "b"
          /\ (call'.arg \in {JInt(1), JStr(S_1)} /\ IsChoice(options[1], S_1))
                => options'[1].value = JStr(S_1)
          /\ (call'.arg = JBool(TRUE) /\ IsChoice(options[1], S_True))
                => options'[1].value = JStr(S_True)
          /\ call'.arg \in {JStr(S_B), JStr(S_abc), JStr(<<>>)} => options'[1] = options[1]]_vars

\* the spinner of a, b, c that holds b was given z: an error, and still b
C12_Witness ==
    /\ call.op = "from_json"
    /\ call.exc = "none"
    /\ call.arg = JStr(S_z)
    /\ options = << SpinnerOption(Id("x"), JStr(S_b), ABC) >>
    /\ call.log = << Ev("error", Id("x"), JStr(S_z)) >>

\* the strs among the incoming values that read "false" once stripped and
\* lowered
FalseWords == {S_false, S_False, S_FALSEsp}

\* standard truthiness
Truthy(v) ==
    CASE v[1] = "null" -> FALSE
      [] v[1] = "bool" -> v[2]
      [] v[1] \in {"int", "float"} -> v[2] # 0
      [] v[1] \in {"str", "list", "map"} -> Len(v[2]) > 0
      [] OTHER -> TRUE

\* C13: a boolean option takes every incoming value and holds a boolean
\* afterwards: false for a str that reads "false" once stripped and
\* lowered, the standard truthiness of every other value
C13_BoolCoercion ==
    [][Loading({"bool"}) =>
          /\ call'.exc = "none"
          /\ options'[1].value[1] = "bool"
          /\ options'[1] = [options[1] EXCEPT !.value =
                JBool(IF call'.arg[1] = "str" /\ call'.arg[2] \in FalseWords
                      THEN FALSE ELSE Truthy(call'.arg))]]_vars

\* the boolean option that holds true was given " FALSE" with a tab after it
C13_Witness ==
    /\ call.op = "from_json"
    /\ call.exc = "none"
    /\ call.arg = JStr(S_FALSEsp)
    /\ options = << [BoolOption(Id("x"), JBool(TRUE)) EXCEPT !.value = JBool(FALSE)] >>

\* n is an integer nearest to the float of t tenths
IsNearest(n, t) == 10 * n - t <= 5 /\ t - 10 * n <= 5

\* what the slider holds after loading the number f
SliderHolds(o, new, f) ==
    IF o.is_integer
    THEN new.value[1] = "int" /\ f[1] = "float" /\ IsNearest(new.value[2], f[2])
    ELSE new.value = f

\* C14: a slider takes every incoming value that float() converts, a
\* number or a numeric str: integer-flagged it holds the nearest integer
\* afterwards, otherwise the incoming number
C14_SliderTakesNumbers ==
    [][(Loading({"slider"}) /\ PyFloat(call'.arg).exc = "none") =>
          /\ call'.exc = "none"
          /\ \A i \in 1..Len(call'.log) : call'.log[i].ev # "error"
          /\ SliderHolds(options[1], options'[1], PyFloat(call'.arg).val)]_vars

\* the same, for the incoming values that are finite numbers
C14_WhenFinite ==
    [][(Loading({"slider"}) /\ PyFloat(call'.arg).exc = "none"
          /\ PyFloat(call'.arg).val[1] = "float") =>
          /\ call'.exc = "none"
          /\ \A i \in 1..Len(call'.log) : call'.log[i].ev # "error"
          /\ SliderHolds(options[1], options'[1], PyFloat(call'.arg).val)]_vars

-----------------------------------------------------------------------------
(* Properties of constructing a slider *)

\* the arguments of the last construction
Arg == [value |-> call'.arg[2], min_value |-> call'.arg[3], max_value |-> call'.arg[4],
        step |-> call'.arg[5], is_integer |-> call'.arg[6]]

\* the step exceeds max_value - min_value; nothing exceeds an unbounded range
StepExceedsRange ==
    /\ Arg.max_value[1] # "inf"
    /\ Tenths(Arg.step) > Tenths(Arg.max_value) - Tenths(Arg.min_value)

Warned == \E i \in 1..Len(call'.log) : call'.log[i].ev = "warn"

\* C15: constructing a slider whose step exceeds max_value - min_value
\* raises ValueError and gives no option; every other construction
\* succeeds, and an integer-flagged slider with a non-integral value,
\* min_value, max_value or step only produces a warning
C15_SliderConstruction ==
    [][call'.op = "construct" =>
          IF StepExceedsRange
          THEN call'.exc = "ValueError" /\ options' = options /\ ~Warned
          ELSE /\ call'.exc = "none"
               /\ options' = << SliderOption(Id("x"), Arg.value, Arg.is_integer) >>
               /\ Warned => Arg.is_integer
               /\ (Arg.is_integer /\ \E x \in {Arg.value, Arg.min_value, Arg.step} :
                                        Tenths(x) % 10 # 0) => Warned]_vars

\* the same, for sliders with a finite range
C15_WhenRangeFinite ==
    [][(call'.op = "construct" /\ Arg.max_value[1] # "inf") =>
          IF StepExceedsRange
          THEN call'.exc = "ValueError" /\ options' = options /\ ~Warned
          ELSE /\ call'.exc = "none"
               /\ options' = << SliderOption(Id("x"), Arg.value, Arg.is_integer) >>
               /\ Warned <=> (Arg.is_integer /\ \E x \in {Arg.value, Arg.min_value,
                                 Arg.max_value, Arg.step} : Tenths(x) % 10 # 0)]_vars

-----------------------------------------------------------------------------
(* Properties of a composite's document *)

\* the children whose serialization is not absent, in declaration order
Present(o) == SelectSeq(o.children, LAMBDA c : Option_to_json(c) # Ellipsis)

RECURSIVE DocOfChildren(_)
\* the document of o holds, in declaration order, one entry for each
\* child that serializes, mapping its identifier to its serialization, and
\* so does the document of every composite below o
DocOfChildren(o) ==
    /\ Option_to_json(o)[1] = "map"
    /\ Option_to_json(o)[2] =
          [i \in 1..Len(Present(o)) |->
              <<Present(o)[i].identifier, Option_to_json(Present(o)[i])>>]
    /\ \A i \in 1..Len(o.children) :
          /\ o.children[i].kind = "button"
                => ~DictHas(Option_to_json(o), o.children[i].identifier)
          /\ o.children[i].kind # "button"
                => Cardinality({j \in 1..Len(Option_to_json(o)[2]) :
                       Option_to_json(o)[2][j][1] = o.children[i].identifier}) = 1
          /\ IsComposite(o.children[i]) => DocOfChildren(o.children[i])

RECURSIVE SameDoc(_, _)
\* Python's == on two documents, with the keys in the same order
SameDoc(a, b) ==
    IF a[1] = "map" /\ b[1] = "map"
    THEN /\ Len(a[2]) = Len(b[2])
         /\ \A i \in 1..Len(a[2]) :
               a[2][i][1] = b[2][i][1] /\ SameDoc(a[2][i][2], b[2][i][2])
    ELSE SameValue(a, b)

-----------------------------------------------------------------------------
(* Properties of the change callback *)

\* the positions of a call's record where the callback was entered
Notifications(log) == {i \in 1..Len(log) : log[i].ev = "on_change"}

\* C17: assigning the value of an option that has a callback invokes the
\* callback once, before the value is overwritten, with the new value, the
\* option still holding the old value; an assignment the callback makes to
\* the option does not invoke it again; an option without a callback is
\* simply assigned
C17_CallbackBeforeAssignment ==
    [][call'.op = "assign" =>
          IF options[1].on_change = "None"
          THEN /\ call'.exc = "none"
               /\ call'.log = <<Ev("set", options[1].identifier, call'.arg)>>
               /\ options'[1].value = call'.arg
          ELSE /\ Notifications(call'.log) = {1}
               /\ call'.log[1] = Ev("on_change", options[1].identifier,
                                    JList(<<call'.arg, options[1].value>>))
               /\ call'.exc = "none" => options'[1].value = call'.arg]_vars

\* the same, for an option none of whose callbacks has raised so far
C17_WhenNoCallbackRaised ==
    [][(call'.op = "assign" /\ ~options[1].guard) =>
          IF options[1].on_change = "None"
          THEN /\ call'.exc = "none"
               /\ call'.log = <<Ev("set", options[1].identifier, call'.arg)>>
               /\ options'[1].value = call'.arg
          ELSE /\ Notifications(call'.log) = {1}
               /\ call'.log[1] = Ev("on_change", options[1].identifier,
                                    JList(<<call'.arg, options[1].value>>))
               /\ call'.exc = "none" => options'[1].value = call'.arg]_vars

\* the callback that assigns the default back ran once, seeing the old
\* value 9, and the slider ended up holding the value assigned, 5
C17_Witness ==
    /\ call.op = "assign"
    /\ call.arg = JInt(5)
    /\ call.log = << Ev("on_change", Id("s"), JList(<<JInt(5), JInt(9)>>)),
                     Ev("set", Id("s"), JInt(5)), Ev("set", Id("s"), JInt(5)) >>
    /\ options[1].value = JInt(5)
    /\ ~options[1].guard

-----------------------------------------------------------------------------
(* Properties of an option made from a keybind *)

\* C18: for the option made by KeybindOption.from_keybind(bind), when an
\* assignment or a load of the option's value has completed bind.key is the
\* option's new value; assigning bind.key directly leaves the option's
\* value alone; and the option starts with the keybind's identifier, key,
\* rebindable flag and display metadata
C18_OneWayBinding ==
    [][Len(keybinds) = 1 =>
          /\ (call'.op \in {"assign", "from_json"} /\ call'.exc = "none") =>
                 keybinds'[1].key = options'[1].value
          /\ call'.op = "rebind" =>
                 /\ keybinds'[1].key = call'.arg
                 /\ options'[1].value = options[1].value
          /\ call'.op = "from_keybind" =>
                 /\ options'[1].kind = "keybind"
                 /\ options'[1].identifier = keybinds[1].identifier
                 /\ options'[1].value = keybinds[1].key
                 /\ options'[1].is_rebindable = keybinds[1].is_rebindable
                 /\ options'[1].display = keybinds[1].display]_vars

\* the keybind j, bound to F1 at first, was rebound directly to None,
\* which the option did not follow; then the option was assigned F3, and
\* the keybind followed
C18_Witness ==
    /\ call.op = "assign"
    /\ call.log = << Ev("on_change", Id("j"), JList(<<JStr(S_F3), JStr(S_F1)>>)),
                     Ev("key", Id("j"), JStr(S_F3)), Ev("set", Id("j"), JStr(S_F3)) >>
    /\ assigns = 1
    /\ keybinds[1].key = JStr(S_F3)
    /\ options[1].value = JStr(S_F3)
    /\ options[1].display = Display(S_Jump, S_abc, S_a, TRUE)

-----------------------------------------------------------------------------
(* Properties of loading the keybinds section *)

\* every keybind named in the section has the key the section gives it,
\* the entry being taken through conv, and every other keybind its old key
KeysFrom(old, new, section, conv(_)) ==
    \A i \in 1..Len(old) :
        IF DictHas(section, old[i].identifier)
        THEN new[i] = [old[i] EXCEPT !.key = conv(DictGet(section, old[i].identifier))]
        ELSE new[i] = old[i]

AsIs(entry) == entry

\* C19: load applies the keybinds section by identifier match: a keybind
\* named in the section gets its entry as key, None for null and any other
\* entry as it is, whatever the entry is nothing is raised; a keybind not
\* named keeps its key; entries that name no keybind are ignored
C19_KeybindsSectionApplied ==
    [][(call'.op = "load" /\ HasDocument /\ HasSection(disk.doc, S_keybinds)) =>
          /\ KeysFrom(keybinds, keybinds', DictGet(disk.doc, S_keybinds), AsIs)
          /\ Len(keybinds') = Len(keybinds)]_vars

\* what does hold: when the load returns, a keybind named in the section
\* has None for a null entry and str(entry) for any other, which is the
\* entry itself only when the entry is a str
C19_WhenLoadReturns ==
    [][(call'.op = "load" /\ HasDocument /\ HasSection(disk.doc, S_keybinds)
          /\ call'.exc = "none") =>
          KeysFrom(keybinds, keybinds', DictGet(disk.doc, S_keybinds), LoadedKey)]_vars

\* the rich mod has loaded a document whose keybinds section names only
\* z, which is no keybind of the mod: both keybinds have the keys they had
C19_Witness ==
    /\ call.op = "load"
    /\ call.exc = "none"
    /\ disk = JsonFile(KeyDoc(D1(S_z, JStr(S_F3))))
    /\ keybinds = RichKeybinds
    /\ \A i \in 1..Len(call.log) : call.log[i].ev # "key"

-----------------------------------------------------------------------------
(* Properties of the default value *)

\* the value the option, which is one of ValueSamples, was constructed with
ConstructedWith(o) ==
    ValueSamples[CHOOSE i \in 1..Len(ValueSamples) :
                    ValueSamples[i].identifier = o.identifier].value

\* C20: whatever is assigned to a value option, loaded into it or modified
\* in place in the value it holds, default_value is the value the option
\* was constructed with and, for an option made by from_keybind, the
\* keybind's default key
C20_DefaultIsSnapshot ==
    IF Len(keybinds) = 1
    THEN options[1].default_value = keybinds[1].default_key
    ELSE options[1].default_value = ConstructedWith(options[1])

\* what does hold: only a modification in place of the object the option
\* was constructed with changes default_value
C20_UnlessModifiedInPlace ==
    [][(call'.op = "modify" /\ options[1].shared) \/
          options'[1].default_value = options[1].default_value]_vars

\* the hidden option d, constructed with [1], was assigned another list,
\* which was then appended to: the default is still [1]
C20_Witness ==
    /\ call.op = "modify"
    /\ options[1].identifier = Id("d")
    /\ options[1].value = JList(<<JInt(1), JInt(2)>>)
    /\ options[1].default_value = JList(<<JInt(1)>>)

-----------------------------------------------------------------------------
(* Properties of the reentrancy guard *)

\* C24: the guard is held only while the callback runs: when an assignment
\* of the value has finished, the callback having returned or raised, the
\* guard is clear, and the next assignment invokes the callback again
C24_GuardClearAfterAssignment ==
    [][call'.op \in {"assign", "from_json"} =>
          /\ ~options'[1].guard
          /\ (options[1].on_change # "None" /\ call'.op = "assign")
                => Notifications(call'.log) # {}]_vars

\* what does hold: the guard is clear after an assignment that returned
C24_WhenCallbackReturns ==
    [][(call'.op \in {"assign", "from_json"} /\ ~options[1].guard
          /\ call'.exc = "none") => ~options'[1].guard]_vars

-----------------------------------------------------------------------------
(* Properties of loading into an option that has a callback *)

\* the new value the callback was called with at position i of log
NewValue(log, i) == log[i].val[2][1]

\* C25: a load of one value into a value option with a callback invokes
\* the callback at most once, with the value the option holds when the
\* load has finished; so too for an integer-flagged slider loading a
\* number that is not integral
C25_OneCallbackPerLoad ==
    [][(call'.op = "from_json" /\ options[1].on_change # "None") =>
          /\ Cardinality(Notifications(call'.log)) <= 1
          /\ \A i \in Notifications(call'.log) :
                 NewValue(call'.log, i) = options'[1].value]_vars

\* what does hold: the same for every option but an integer-flagged slider
C25_UnlessIntegerSlider ==
    [][(call'.op = "from_json" /\ options[1].on_change # "None"
          /\ ~(options[1].kind = "slider" /\ options[1].is_integer)) =>
          /\ Cardinality(Notifications(call'.log)) <= 1
          /\ \A i \in Notifications(call'.log) :
                 NewValue(call'.log, i) = options'[1].value]_vars

-----------------------------------------------------------------------------
(* Properties of keybinds that cannot be rebound *)

\* C27: load changes the key of rebindable keybinds only: whatever the
\* file holds, a keybind that cannot be rebound, which save never writes,
\* has after the load the key it had before
C27_LoadKeepsFixedKeybinds ==
    [][call'.op = "load" =>
          \A i \in 1..Len(keybinds) :
              ~keybinds[i].is_rebindable => keybinds'[i].key = keybinds[i].key]_vars

\* what does hold: save writes no entry for such a keybind, and load
\* keeps its key when the file names it in no entry
C27_WhenFileDoesNotNameIt ==
    /\ [][call'.op = "load" =>
             \A i \in 1..Len(keybinds) :
                 ( /\ ~keybinds[i].is_rebindable
                   /\ ~( /\ HasDocument
                         /\ HasSection(disk.doc, S_keybinds)
                         /\ DictHas(DictGet(disk.doc, S_keybinds), keybinds[i].identifier) ) )
                 => keybinds'[i].key = keybinds[i].key]_vars
    /\ [][(call'.op = "save" /\ settings_file = "path"
             /\ DictHas(call'.arg, S_keybinds)) =>
             \A i \in 1..Len(keybinds) :
                 ~keybinds[i].is_rebindable =>
                     ~DictHas(DictGet(call'.arg, S_keybinds), keybinds[i].identifier)]_vars

-----------------------------------------------------------------------------
(* Properties of a save followed by a load *)

RECURSIVE AllInDomain(_)
\* every value option of the tree holds a value in the domain of its kind
AllInDomain(opts) ==
    \A i \in 1..Len(opts) :
        IF IsComposite(opts[i]) THEN AllInDomain(opts[i].children)
        ELSE IsValueOption(opts[i]) => InDomain(opts[i])

RECURSIVE SameValues(_, _)
\* the same options, holding values that are equal under Python's ==
SameValues(old, new) ==
    /\ Len(new) = Len(old)
    /\ \A i \in 1..Len(old) :
          /\ new[i].kind = old[i].kind
          /\ new[i].identifier = old[i].identifier
          /\ IF IsComposite(old[i]) THEN SameValues(old[i].children, new[i].children)
             ELSE SameValue(old[i].value, new[i].value)

-----------------------------------------------------------------------------
(* Properties of the capture of the next console line *)

Captures(cmds) == {c \in cmds : c.cmd = NEXT_LINE}

\* C23: at most one capture of the next console line is registered at any
\* time: capture_next_console_line raises when there is one, which stays
\* in place with its callback, and registers the callback when there is
\* none, also after remove_next_console_line_capture, which does nothing
\* when no capture is registered
C23_OneCapture ==
    [][/\ Cardinality(Captures(console_commands')) <= 1
       /\ call'.op = "capture" =>
             IF Captures(console_commands) # {}
             THEN call'.exc = "RuntimeError" /\ console_commands' = console_commands
             ELSE /\ call'.exc = "none"
                  /\ Captures(console_commands') = {[cmd |-> NEXT_LINE, callback |-> call'.arg]}
                  /\ console_commands' \ Captures(console_commands')= console_commands
       /\ call'.op = "remove_capture" =>
             /\ call'.exc = "none"
             /\ console_commands' = console_commands \ Captures(console_commands)]_vars

\* the callback "other" has been registered as the capture, next to the
\* command rlm, which is the only other command registered
C23_Witness ==
    /\ call.op = "capture"
    /\ call.exc = "none"
    /\ call.arg = "other"
    /\ console_commands = {[cmd |-> "rlm", callback |-> "_handle_cmd"],
                           [cmd |-> NEXT_LINE, callback |-> "other"]}

-----------------------------------------------------------------------------
(* Properties of build_mod *)

\* the tool.sdkmod and the project tables of a manifest, empty when absent
SdkmodOf(toml_data) ==
    IF DictHas(toml_data, K_tool) /\ DictHas(DictGet(toml_data, K_tool), K_sdkmod)
    THEN DictGet(DictGet(toml_data, K_tool), K_sdkmod) ELSE JMap(<<>>)

ProjectOf(toml_data) ==
    IF DictHas(toml_data, K_project) THEN DictGet(toml_data, K_project) ELSE JMap(<<>>)

\* the value a table holds under a key, None when it has none
ValueAt(table, key) == IF DictHas(table, key) THEN DictGet(table, key) ELSE JNull

\* the value each source supplies for a field, None when it supplies none
FromSdkmod(f, sdkmod) ==
    CASE f = "name" -> ValueAt(sdkmod, K_name)
      [] f = "version" -> ValueAt(sdkmod, K_version)
      [] f = "auto_enable" -> ValueAt(sdkmod, K_auto_enable)
      [] f = "mod_type" -> MemberGet(ModType_members, ValueAt(sdkmod, K_mod_type))
      [] f = "coop_support" -> MemberGet(CoopSupport_members, ValueAt(sdkmod, K_coop_support))
      [] f = "supported_games" ->
            IF DictHas(sdkmod, K_supported_games)
               /\ ValidGames(DictGet(sdkmod, K_supported_games)) # <<>>
            THEN GamesFlag(ValidGames(DictGet(sdkmod, K_supported_games))) ELSE JNull
      [] OTHER -> JNull

\* whether some entry of project.authors has a name
NamesAuthor(project) ==
    /\ DictHas(project, K_authors)
    /\ \E i \in 1..Len(DictGet(project, K_authors)[2]) :
           DictHas(DictGet(project, K_authors)[2][i], K_name)

FromProject(f, project) ==
    CASE f = "name" -> ValueAt(project, K_name)
      [] f = "version" -> ValueAt(project, K_version)
      [] f = "description" -> ValueAt(project, K_description)
      [] f = "author" ->
            IF NamesAuthor(project)
            THEN JStr(JoinNames(DictGet(project, K_authors)[2], TRUE)) ELSE JNull
      [] OTHER -> JNull

FoundOrNone(module, classes) ==
    IF Found(module, classes) = <<>> THEN JNull ELSE JList(Found(module, classes))

FromModule(f, module) ==
    CASE f = "name" -> ValueAt(module.attrs, K___name__)
      [] f = "author" -> ValueAt(module.attrs, K___author__)
      [] f = "version" -> ValueAt(module.attrs, K___version__)
      [] f = "on_enable" -> ValueAt(module.attrs, K_on_enable)
      [] f = "on_disable" -> ValueAt(module.attrs, K_on_disable)
      [] f = "settings_file" -> DefaultSettingsFile(module)
      [] f = "keybinds" -> FoundOrNone(module, {"Keybind"})
      [] f = "options" ->
            FoundOrNone(module, {"BoolOption", "SliderOption", "ButtonOption", "KeybindOption"})
      [] f = "hooks" -> FoundOrNone(module, {"Hook"})
      [] f = "commands" -> FoundOrNone(module, {"Command"})
      [] OTHER -> JNull

\* the first of the values that is not None, None when there is none
FirstGiven(vs) ==
    IF \E i \in 1..Len(vs) : vs[i] # JNull
    THEN vs[CHOOSE i \in 1..Len(vs) : vs[i] # JNull /\ \A j \in 1..(i - 1) : vs[j] = JNull]
    ELSE JNull

Resolved(f, args, toml_data, module) ==
    FirstGiven(<<args[f], FromSdkmod(f, SdkmodOf(toml_data)),
                 FromProject(f, ProjectOf(toml_data)), FromModule(f, module)>>)

\* the mod the last call of build_mod constructed and registered
BuiltMod == mod_list[Len(mod_list)]

\* the field of the mod built is the first value given, and is not passed
\* when none is
Resolves(f) ==
    IF Resolved(f, ArgSamples[call.arg.a], TomlSamples[call.arg.t],
                ModuleSamples[call.arg.m]) = JNull
    THEN f \notin DOMAIN BuiltMod
    ELSE /\ f \in DOMAIN BuiltMod
         /\ BuiltMod[f] = Resolved(f, ArgSamples[call.arg.a], TomlSamples[call.arg.t],
                                   ModuleSamples[call.arg.m])

\* C21: every field the mod is constructed with is the first value given
\* among the argument of build_mod, tool.sdkmod, project and the calling
\* module's scope, and a field none of them gives is not passed to the
\* constructor
C21_FieldPrecedence ==
    (call.op = "build_mod" /\ call.exc = "none") =>
        \A f \in FieldNames \ {"_version_info"} : Resolves(f)

\* project.authors is there but names no author, and author is no argument
UnnamedAuthors ==
    /\ ArgSamples[call.arg.a].author = JNull
    /\ DictHas(ProjectOf(TomlSamples[call.arg.t]), K_authors)
    /\ ~NamesAuthor(ProjectOf(TomlSamples[call.arg.t]))

\* C21, but for the author when project.authors names nobody: the
\* precedence holds for every field, and in that case the author passed to
\* the constructor is the empty string, whatever __author__ is
C21_UnlessAuthorsUnnamed ==
    (call.op = "build_mod" /\ call.exc = "none") =>
        /\ \A f \in FieldNames \ {"_version_info", "author"} : Resolves(f)
        /\ IF UnnamedAuthors THEN BuiltMod.author = JStr(<<>>) ELSE Resolves("author")

\* the author is an argument although project names authors and the module
\* has __author__, the name is tool.sdkmod's although project has one, the
\* options are those found in the module, and no hook is given at all
C21_Witness ==
    /\ call.op = "build_mod" /\ call.exc = "none"
    /\ call.arg.a = 4 /\ call.arg.t = 2 /\ call.arg.m = 3
    /\ BuiltMod.author = JStr(<<"B">>)
    /\ BuiltMod.name = JStr(<<"T">>)
    /\ BuiltMod.options = JList(<<Obj("KeybindOption", "o")>>)
    /\ "hooks" \notin DOMAIN BuiltMod
    /\ "_version_info" \notin DOMAIN BuiltMod

\* the mods of the list that use the settings file
Using(mods, file) == {i \in 1..Len(mods) : mods[i].settings_file = file}

\* no two registered mods use the same settings file
OnePerFile(mods) ==
    \A i, j \in 1..Len(mods) : mods[i].settings_file = mods[j].settings_file => i = j

\* C22: a call of build_mod with deregister_same_settings takes every mod
\* that uses the new mod's settings file out of mod_list and leaves the
\* others as they are, then registers the new mod; so the new mod is the one
\* mod using its file, and if no two mods shared a file before none do after
C22_DeregisterSameSettings ==
    [][(call'.op = "build_mod" /\ call'.exc = "none" /\ call'.arg.deregister_same_settings) =>
          /\ mod_list' # <<>>
          /\ Using(mod_list', mod_list'[Len(mod_list')].settings_file) = {Len(mod_list')}
          /\ SubSeq(mod_list', 1, Len(mod_list') - 1)
               = SelectSeq(mod_list, LAMBDA mod :
                     mod.settings_file # mod_list'[Len(mod_list')].settings_file)
          /\ (OnePerFile(mod_list) => OnePerFile(mod_list'))]_vars

\* a module was reloaded: its mod was deregistered and the new one takes its
\* place next to the mod of another module
C22_Witness ==
    /\ call.op = "build_mod" /\ call.exc = "none" /\ call.arg.deregister_same_settings
    /\ \E i \in 1..Len(call.log) : call.log[i].ev = "deregister_mod"
    /\ Len(mod_list) = 2
    /\ mod_list[1].settings_file = <<"path", <<"n", ".", "j", "s", "o", "n">>>>
    /\ mod_list[2].settings_file = <<"path", <<"m", ".", "j", "s", "o", "n">>>>
    /\ OnePerFile(mod_list)

=============================================================================
